---------------------------- MODULE Spec2Model ----------------------------
(***************************************************************************)
(* A model of the task manager: the asynchronous file logger               *)
(* (pkg/logger), the periodic archiver (pkg/archiver), the id generator    *)
(* (pkg/utils), the text storage (pkg/storage) and the main program with   *)
(* its command handlers and its shutdown sequence.                         *)
(*                                                                         *)
(* Five specifications share the variables:                                *)
(*   Spec        the program main(): command thread, signal goroutine,     *)
(*               logger worker, archiver worker, wg.Wait goroutine;        *)
(*   FairSpec    the same program with every goroutine scheduled fairly;   *)
(*   LoggerSpec  the Logger driven by an arbitrary client, as the tests of *)
(*               pkg/logger drive it;                                      *)
(*   IdGenSpec   an IDGenerator whose NextID concurrent goroutines call;   *)
(*   IdGenUpdateSpec  the same with NextID and UpdateGenerator calls mixed. *)
(***************************************************************************)
EXTENDS Integers, Sequences, FiniteSets, Bags

\* ------------------------------------------------------------------ bounds

\* capacity of logChan: the bufferSize parameter of NewLogger
bufferSize == 2

\* Close() calls the client of LoggerSpec makes at most
MaxCloses == 2

\* ticks of the archiver's ticker in one run
MaxTicks == 1

\* ticks of the archiver's ticker in one run of ArchiverSpec
MaxArchTicks == 2

\* length of the sequences of records handed to SaveTasks and AppendTask
MaxRecords == 2

\* WriteString calls on the log file that fail in one run, at most
MaxWriteFailures == 1

\* concurrent callers of NextID in IdGenSpec, and calls each makes at most
NumCallers == 2

CallsPerCaller == 2

\* largest maxID an IDGenerator is seeded with in IdGenSpec
MaxSeed == 2

\* calls of NextID and UpdateGenerator made in one run of IdGenUpdateSpec
MaxMixedCalls == 3

\* Log calls the client of LoggerSpec makes at most: enough to overflow logChan
MaxLogs == bufferSize + 2

\* --------------------------------------------------------------- variables

VARIABLES
    proc,         \* the process: "running", "exited" (main returned), "panicked"
    ctxDone,      \* the shared context is cancelled
    wg,           \* counter of the shared sync.WaitGroup
    waitChan,     \* "none" (not made), "open", "closed": main's waitChan
    \* Logger
    logChan,      \* buffered content of l.logChan, oldest first
    chanClosed,   \* close(l.logChan) has happened
    closed,       \* l.closed
    logFile,      \* messages written to the log file, in file order
    fileOpen,     \* l.file is open
    lgPc,         \* logger goroutine: "none","loop","drain","exiting","fileclosed","done"
    nLog,         \* number of Log calls made so far; the n-th call logs message n
    accepted,     \* messages Log enqueued, in enqueue order (history)
    diag,         \* diagnostics printed: <<kind, message>>
    lateLogs,     \* messages passed to Log when Close() had returned (history)
    closeCalls,   \* number of Close() calls made so far (history)
    drained,      \* the drain loop after cancellation has received a message (history)
    \* task store, id generator, files
    tasks,        \* the slice tasks
    taskMutex,    \* holder of taskMutex: "none", "main", "archiver"
    nextID,       \* idGen.nextID
    primaryFile,  \* lines of storage/tasks.txt
    tmpFile,      \* lines of storage/tasks.txt.tmp, or Absent
    archiveFile,  \* lines of storage/archive.txt
    \* main
    mPc,          \* position of the main goroutine
    mCmd,         \* the command of this run and its arguments
    saveErr,      \* SaveTasks returned an error
    savedTasks,   \* the store as it was when SaveTasks was entered (history)
    \* archiver goroutine
    arPc,         \* "none","loop","lock","scan","append","done"
    tasksToArchive,
    archErr,      \* the last archiveCompletedTasks returned an error
    ticks,        \* ticks delivered so far
    \* IDGenerator under concurrent callers (IdGenSpec)
    genMu,        \* holder of g.mu: 0 (free) or a caller
    callerPc,     \* caller -> "idle","locked","read","incremented","unlocked",
                  \*           "ulocked","uset","uunlocked"
    callerId,     \* caller -> the local id of NextID
    callsMade,    \* caller -> completed NextID calls
    returned,     \* bag of the ids NextID calls have returned (history)
    seed,         \* the initialMaxID the generator was made with
    callerCand,   \* caller -> the maxID argument of its UpdateGenerator call
    callerFloor,  \* caller -> doneMax when its call began (history)
    doneMax       \* greatest id returned or candidate passed by a completed call (history)

loggerVars == <<logChan, chanClosed, closed, logFile, fileOpen, lgPc, nLog,
                accepted, diag, lateLogs, closeCalls, drained>>

storeVars == <<tasks, taskMutex, nextID, primaryFile, tmpFile, archiveFile>>

mainVars == <<mPc, mCmd, saveErr, savedTasks>>

archVars == <<arPc, tasksToArchive, archErr, ticks>>

genVars == <<genMu, callerPc, callerId, callsMade, returned, seed, callerCand, callerFloor, doneMax>>

procVars == <<proc, ctxDone, wg, waitChan>>

vars == <<procVars, loggerVars, storeVars, mainVars, archVars, genVars>>

Absent == <<"absent">>

Running == proc = "running"

Range(f) == {f[i] : i \in DOMAIN f}

\* occurrences of m in a sequence, and the place of its first occurrence
Count(f, m) == Cardinality({i \in DOMAIN f : f[i] = m})

Pos(f, m) == CHOOSE i \in DOMAIN f : f[i] = m /\ \A j \in DOMAIN f : f[j] = m => i <= j

\* ------------------------------------------------------------------ Logger

\* the non-blocking send of Log's select: enqueue when there is room, else
\* leave the channel as it is (the default branch)
TrySend(ch, m) ==
    IF Len(ch) < bufferSize THEN Append(ch, m) ELSE ch

\* the guard "if l.closed" of Log
LogIgnoresClosed(c) == FALSE

LogRejects(c) == c

\* a receive from the channel takes the oldest buffered message
ChanRecvNewest(ch) == ch[Len(ch)]

ChanRecv(ch) == Head(ch)

ChanRest(ch) == Tail(ch)

\* "for msg := range l.logChan" ends when the closed channel is empty
RangeEndsAtOnce(ch) == TRUE

RangeEnds(ch) == ch = <<>>

\* Logger.Log(message), the message being the (nLog+1)-th one.  Under l.mu:
\* closed -> diagnostic; else the select: a send on a closed channel panics
\* (also inside a select with a default branch), a send with room enqueues,
\* otherwise the default branch prints the overflow diagnostic.
Log ==
    LET m == nLog + 1 IN
    /\ nLog' = m
    /\ lateLogs' = IF closed THEN lateLogs \cup {m} ELSE lateLogs
    /\ IF LogRejects(closed)
         THEN /\ diag' = diag \cup {<<"closed", m>>}
              /\ UNCHANGED <<logChan, accepted, proc>>
         ELSE IF chanClosed
           THEN /\ proc' = "panicked"
                /\ UNCHANGED <<logChan, accepted, diag>>
           ELSE /\ logChan' = TrySend(logChan, m)
                /\ accepted' = IF m \in Range(logChan') THEN Append(accepted, m)
                                                          ELSE accepted
                /\ diag' = IF Len(logChan) < bufferSize
                             THEN diag ELSE diag \cup {<<"full", m>>}
                /\ proc' = proc

\* what Log leaves alone among the logger's variables
LogFrame ==
    UNCHANGED <<chanClosed, closed, logFile, fileOpen, lgPc, closeCalls, drained>>

\* Logger.Close(): under l.mu, a call on a closed logger returns at once,
\* otherwise l.closed is set; the channel is left to the goroutine
CloseClosingChannel ==
    /\ closeCalls' = closeCalls + 1
    /\ closed' = TRUE
    /\ chanClosed' = TRUE
    /\ UNCHANGED <<logChan, logFile, fileOpen, lgPc, nLog, accepted, diag,
                   lateLogs, drained>>

Close ==
    /\ closeCalls' = closeCalls + 1
    /\ closed' = (IF closed THEN closed ELSE TRUE)
    /\ UNCHANGED <<logChan, chanClosed, logFile, fileOpen, lgPc, nLog,
                   accepted, diag, lateLogs, drained>>

\* Logger.Run(ctx): wg.Add(1) and the goroutine is started
Run ==
    /\ lgPc = "none"
    /\ wg' = wg + 1
    /\ lgPc' = "loop"
    /\ UNCHANGED <<logChan, chanClosed, closed, logFile, fileOpen, nLog,
                   accepted, diag, lateLogs, closeCalls, drained>>

\* failed writes of the log file so far
WriteFailures == Cardinality({d \in diag : d[1] = "write"})

\* l.file.WriteString(logEntry): the line is appended, or the write fails and
\* the failure is printed
WriteEntry(m, ok) ==
    /\ ok \/ WriteFailures < MaxWriteFailures
    /\ logFile' = IF ok THEN Append(logFile, m) ELSE logFile
    /\ diag' = IF ok THEN diag ELSE diag \cup {<<"write", m>>}

\* select: case msg, ok := <-l.logChan (ok true: only this goroutine closes
\* the channel, and it leaves the loop when it does)
LoggerRecv(ok) ==
    /\ Running
    /\ lgPc = "loop"
    /\ logChan # <<>>
    /\ WriteEntry(ChanRecv(logChan), ok)
    /\ logChan' = ChanRest(logChan)
    /\ UNCHANGED <<chanClosed, closed, fileOpen, lgPc, nLog, accepted,
                   lateLogs, closeCalls, drained>>
    /\ UNCHANGED <<procVars, storeVars, mainVars, archVars, genVars>>

\* select: case <-ctx.Done(): close(l.logChan), then the drain loop
LoggerCtxDone ==
    /\ Running
    /\ lgPc = "loop"
    /\ ctxDone
    /\ chanClosed' = TRUE
    /\ lgPc' = "drain"
    /\ UNCHANGED <<logChan, closed, logFile, fileOpen, nLog, accepted, diag,
                   lateLogs, closeCalls, drained>>
    /\ UNCHANGED <<procVars, storeVars, mainVars, archVars, genVars>>

\* one iteration of "for msg := range l.logChan"
LoggerDrain(ok) ==
    /\ Running
    /\ lgPc = "drain"
    /\ ~RangeEnds(logChan)
    /\ logChan # <<>>
    /\ WriteEntry(ChanRecv(logChan), ok)
    /\ logChan' = ChanRest(logChan)
    /\ drained' = TRUE
    /\ UNCHANGED <<chanClosed, closed, fileOpen, lgPc, nLog, accepted,
                   lateLogs, closeCalls>>
    /\ UNCHANGED <<procVars, storeVars, mainVars, archVars, genVars>>

\* the range loop ends; break LogLoop
LoggerDrainEnd ==
    /\ Running
    /\ lgPc = "drain"
    /\ RangeEnds(logChan)
    /\ lgPc' = "exiting"
    /\ UNCHANGED <<logChan, chanClosed, closed, logFile, fileOpen, nLog,
                   accepted, diag, lateLogs, closeCalls, drained>>
    /\ UNCHANGED <<procVars, storeVars, mainVars, archVars, genVars>>

\* defer l.file.Close()
WgDoneWithFileOpen ==
    /\ Running
    /\ lgPc = "exiting"
    /\ wg' = wg - 1
    /\ lgPc' = "done"
    /\ UNCHANGED <<logChan, chanClosed, closed, logFile, fileOpen, nLog,
                   accepted, diag, lateLogs, closeCalls, drained>>
    /\ UNCHANGED <<proc, ctxDone, waitChan>>
    /\ UNCHANGED <<storeVars, mainVars, archVars, genVars>>

LoggerFileClose ==
    /\ Running
    /\ lgPc = "exiting"
    /\ fileOpen' = FALSE
    /\ lgPc' = "fileclosed"
    /\ UNCHANGED <<logChan, chanClosed, closed, logFile, nLog, accepted, diag,
                   lateLogs, closeCalls, drained>>
    /\ UNCHANGED <<procVars, storeVars, mainVars, archVars, genVars>>

\* defer l.wg.Done()
LoggerWgDone ==
    /\ Running
    /\ lgPc = "fileclosed"
    /\ wg' = wg - 1
    /\ lgPc' = "done"
    /\ UNCHANGED <<logChan, chanClosed, closed, logFile, fileOpen, nLog,
                   accepted, diag, lateLogs, closeCalls, drained>>
    /\ UNCHANGED <<proc, ctxDone, waitChan>>
    /\ UNCHANGED <<storeVars, mainVars, archVars, genVars>>

LoggerWorker ==
    \/ \E ok \in BOOLEAN : LoggerRecv(ok)
    \/ LoggerCtxDone
    \/ \E ok \in BOOLEAN : LoggerDrain(ok)
    \/ LoggerDrainEnd
    \/ LoggerFileClose
    \/ LoggerWgDone

\* ------------------------------------------- the Logger and its client

\* lg.Run(ctx)
ClientRun ==
    /\ Running
    /\ mPc = "client"
    /\ Run
    /\ UNCHANGED <<proc, ctxDone, waitChan>>
    /\ UNCHANGED <<storeVars, mainVars, archVars, genVars>>

\* lg.Log(...)
ClientLog ==
    /\ Running
    /\ mPc = "client"
    /\ nLog < MaxLogs
    /\ Log
    /\ LogFrame
    /\ UNCHANGED <<ctxDone, wg, waitChan>>
    /\ UNCHANGED <<storeVars, mainVars, archVars, genVars>>

\* lg.Close()
ClientClose ==
    /\ Running
    /\ mPc = "client"
    /\ closeCalls < MaxCloses
    /\ Close
    /\ UNCHANGED <<procVars, storeVars, mainVars, archVars, genVars>>

\* cancel()
ClientCancel ==
    /\ Running
    /\ mPc = "client"
    /\ ~ctxDone
    /\ ctxDone' = TRUE
    /\ UNCHANGED <<proc, wg, waitChan>>
    /\ UNCHANGED <<loggerVars, storeVars, mainVars, archVars, genVars>>

InitLoggerVars ==
    /\ logChan = <<>>
    /\ chanClosed = FALSE
    /\ closed = FALSE
    /\ logFile = <<>>
    /\ fileOpen = TRUE
    /\ lgPc = "none"
    /\ nLog = 0
    /\ accepted = <<>>
    /\ diag = {}
    /\ lateLogs = {}
    /\ closeCalls = 0
    /\ drained = FALSE

InitProcVars ==
    /\ proc = "running"
    /\ ctxDone = FALSE
    /\ wg = 0
    /\ waitChan = "none"

InitIdle ==
    /\ tasks = <<>>
    /\ taskMutex = "none"
    /\ primaryFile = <<>>
    /\ tmpFile = Absent
    /\ archiveFile = <<>>
    /\ mCmd = <<"none">>
    /\ saveErr = FALSE
    /\ savedTasks = <<>>
    /\ arPc = "none"
    /\ tasksToArchive = <<>>
    /\ archErr = FALSE
    /\ ticks = 0

InitGenIdle ==
    /\ nextID = 1
    /\ genMu = 0
    /\ callerPc = [c \in 1..NumCallers |-> "idle"]
    /\ callerId = [c \in 1..NumCallers |-> 0]
    /\ callsMade = [c \in 1..NumCallers |-> 0]
    /\ returned = EmptyBag
    /\ seed = 0
    /\ callerCand = [c \in 1..NumCallers |-> 0]
    /\ callerFloor = [c \in 1..NumCallers |-> 0]
    /\ doneMax = 0

\* the state after NewLogger, in a test of pkg/logger
InitLogger ==
    /\ InitProcVars
    /\ InitLoggerVars
    /\ InitIdle
    /\ InitGenIdle
    /\ mPc = "client"

NextLogger ==
    \/ ClientRun
    \/ ClientLog
    \/ ClientClose
    \/ ClientCancel
    \/ LoggerWorker

LoggerSpec == InitLogger /\ [][NextLogger]_vars

\* ------------------------------------------------- task records, storage

PriorityHigh == "high"

PriorityMedium == "medium"

PriorityLow == "low"

defaultPriority == PriorityMedium

\* the priority switch of handleAddTask, AddTask and LoadTasks
KeepPriority(p) == p

NormalPriority(p) ==
    IF p \in {PriorityHigh, PriorityMedium, PriorityLow} THEN p ELSE PriorityMedium

\* task.AddTask(id, title, priority), time.Now() being now
AddTask(id, title, priority, now) ==
    [ID |-> id, Title |-> title, Done |-> FALSE, CreatedAt |-> now,
     Priority |-> NormalPriority(priority)]

\* ---- the text of the fields. A text is a string and is taken apart
\* character by character with Head, Tail, SubSeq and Len.

\* the decimal digit d
Digit(d) == SubSeq("0123456789", d + 1, d + 1)

IsDigit(c) == c \in {"0", "1", "2", "3", "4", "5", "6", "7", "8", "9"}

DigitValue(c) == CHOOSE d \in 0..9 : Digit(d) = c

\* the verb %d of taskFileFormat
RECURSIVE Itoa(_)
Itoa(n) ==
    IF n < 0 THEN "-" \o Itoa(0 - n)
    ELSE IF n < 10 THEN Digit(n)
    ELSE Itoa(n \div 10) \o Digit(n % 10)

RECURSIVE AllDigits(_)
AllDigits(s) == IF s = "" THEN TRUE ELSE IsDigit(Head(s)) /\ AllDigits(Tail(s))

\* the number a text of digits denotes, acc being the value of the digits
\* read so far
RECURSIVE DigitsValue(_, _)
DigitsValue(s, acc) ==
    IF s = "" THEN acc
    ELSE DigitsValue(Tail(s), 10 * acc + DigitValue(Head(s)))

\* strconv.Atoi(s): an optional sign and one digit at least; 0 and an error
\* otherwise
Atoi(s) ==
    LET signed == s # "" /\ Head(s) \in {"+", "-"}
        digits == IF signed THEN Tail(s) ELSE s
    IN IF digits = "" \/ ~AllDigits(digits)
         THEN [ok |-> FALSE, value |-> 0]
         ELSE [ok |-> TRUE,
               value |-> IF signed /\ Head(s) = "-"
                           THEN 0 - DigitsValue(digits, 0)
                           ELSE DigitsValue(digits, 0)]

\* the verb %t of taskFileFormat
FormatBool(b) == IF b THEN "true" ELSE "false"

\* strconv.ParseBool(s): false and an error for a text it does not know
ParseBool(s) ==
    IF s \in {"1", "t", "T", "TRUE", "true", "True"}
      THEN [ok |-> TRUE, value |-> TRUE]
    ELSE IF s \in {"0", "f", "F", "FALSE", "false", "False"}
      THEN [ok |-> TRUE, value |-> FALSE]
    ELSE [ok |-> FALSE, value |-> FALSE]

\* a time is <<seconds, nanoseconds, offset>>: the reading of the clock of
\* its location, the seconds counted within the minute 2006-01-02 15:04
\* whose text is the prefix of every timestamp of the model, and the offset
\* of the location from UTC, counted in seconds
MinuteText == "2006-01-02 15:04:"

\* t.CreatedAt.Format(timeFormat): two digits of seconds of the clock of the
\* location; the fraction of the second and the location are not written
FormatTimeInUTC(t) ==
    MinuteText \o Digit((t[1] - t[3]) \div 10) \o Digit((t[1] - t[3]) % 10)

FormatTime(t) == MinuteText \o Digit(t[1] \div 10) \o Digit(t[1] % 10)

\* time.Parse(timeFormat, s): the text read as a time in UTC; the zero time
\* and an error for a text that is not a timestamp
ParseTime(s) ==
    LET n == Len(MinuteText)
        shaped == /\ Len(s) = n + 2
                  /\ SubSeq(s, 1, n) = MinuteText
                  /\ AllDigits(SubSeq(s, n + 1, n + 2))
        secs == DigitsValue(SubSeq(s, n + 1, n + 2), 0)
    IN IF shaped /\ secs < 60
         THEN [ok |-> TRUE, value |-> <<secs, 0, 0>>]
         ELSE [ok |-> FALSE, value |-> <<0, 0, 0>>]

\* strings.Index(s, sep) + 1 for a separator of one character: the position
\* of its first occurrence, 0 when there is none
RECURSIVE Index(_, _)
Index(s, sep) ==
    IF s = "" THEN 0
    ELSE IF Head(s) = sep THEN 1
    ELSE LET r == Index(Tail(s), sep) IN IF r = 0 THEN 0 ELSE r + 1

\* strings.SplitN(s, sep, n) for n > 0: at most n parts, the last one the
\* unsplit rest
RECURSIVE SplitN(_, _, _)
SplitN(s, sep, n) ==
    LET i == Index(s, sep) IN
    IF n = 1 \/ i = 0 THEN <<s>>
    ELSE <<SubSeq(s, 1, i - 1)>> \o SplitN(SubSeq(s, i + 1, Len(s)), sep, n - 1)

\* fmt.Sprintf(taskFileFormat, ...) without the newline that ends it: the
\* title and the priority are written as they are
TaskLine(t) ==
    Itoa(t.ID) \o "|" \o t.Title \o "|" \o FormatBool(t.Done) \o "|"
        \o FormatTime(t.CreatedAt) \o "|" \o t.Priority

\* what SaveTasks and AppendTask write for a slice of tasks, in order: a
\* file is the sequence of the texts written, each ended by a newline
ReversedLines(ts) == [i \in 1..Len(ts) |-> TaskLine(ts[Len(ts) + 1 - i])]

TaskLines(ts) == [i \in 1..Len(ts) |-> TaskLine(ts[i])]

\* the lines bufio.Scanner reads from a file: a newline inside a written
\* text ends a line as well
RECURSIVE ScanLines(_)
ScanLines(file) ==
    IF file = <<>> THEN <<>>
    ELSE SplitN(Head(file), "\n", Len(Head(file)) + 1) \o ScanLines(Tail(file))

\* LoadTasks: len(parts) == 5 after strings.SplitN(line, "|", 5)
FiveFields(line) == Len(SplitN(line, "|", 5)) = 5

\* LoadTasks keeps a line when none of its four checks says continue
DecodesAnyFiveFields(line) == Len(SplitN(line, "|", 5)) = 5

Decodes(line) ==
    LET parts == SplitN(line, "|", 5) IN
    /\ Len(parts) = 5
    /\ Atoi(parts[1]).ok
    /\ ParseBool(parts[3]).ok
    /\ ParseTime(parts[4]).ok

\* the task LoadTasks makes of a kept line
ParseLine(line) ==
    LET parts == SplitN(line, "|", 5) IN
    [ID |-> Atoi(parts[1]).value, Title |-> parts[2],
     Done |-> ParseBool(parts[3]).value,
     CreatedAt |-> ParseTime(parts[4]).value,
     Priority |-> NormalPriority(parts[5])]

\* the maxID loop of LoadTasks: starts at 0, raised by every greater id
LastID(ts) == IF ts = <<>> THEN 0 ELSE ts[Len(ts)].ID

MaxID(ts) ==
    LET ids == {ts[i].ID : i \in DOMAIN ts} \cup {0}
    IN CHOOSE m \in ids : \A x \in ids : x <= m

\* LoadTasks(filePath): a missing file is no error; an open or read error
\* returns nil, 0 and the error
LoadTasks(file, ioError) ==
    IF ioError THEN [tasks |-> <<>>, maxID |-> 0, err |-> TRUE]
    ELSE IF file = Absent THEN [tasks |-> <<>>, maxID |-> 0, err |-> FALSE]
    ELSE LET kept == SelectSeq(ScanLines(file), Decodes)
             ts == [i \in 1..Len(kept) |-> ParseLine(kept[i])]
         IN [tasks |-> ts, maxID |-> MaxID(ts), err |-> FALSE]

\* index of the first task with the id, 0 when there is none
LastIndex(ts, id) ==
    IF \E i \in DOMAIN ts : ts[i].ID = id
      THEN CHOOSE i \in DOMAIN ts :
             ts[i].ID = id /\ \A j \in DOMAIN ts : ts[j].ID = id => i >= j
      ELSE 0

FirstIndex(ts, id) ==
    IF \E i \in DOMAIN ts : ts[i].ID = id
      THEN CHOOSE i \in DOMAIN ts :
             ts[i].ID = id /\ \A j \in DOMAIN ts : ts[j].ID = id => i <= j
      ELSE 0

\* handleDoneTask: tasks[i].Done = true
MarkDoneRetitled(ts, i) == [ts EXCEPT ![i].Done = TRUE, ![i].Title = "done"]

MarkDone(ts, i) == [ts EXCEPT ![i].Done = TRUE]

\* handleAddTask: tasks = append(tasks, newTask)
PrependRecord(ts, t) == <<t>> \o ts

AppendRecord(ts, t) == Append(ts, t)

\* handleDeleteTask: the last task is copied over the deleted one and the
\* slice is shortened by one
TruncateOnly(ts, i) == SubSeq(ts, 1, Len(ts) - 1)

SwapRemove(ts, i) ==
    [k \in 1..(Len(ts) - 1) |-> IF k = i THEN ts[Len(ts)] ELSE ts[k]]

\* the tasks archiveCompletedTasks copies out
AllTasks(ts) == ts

DoneTasks(ts) == SelectSeq(ts, LAMBDA t : t.Done)

\* taskMutex.Lock() proceeds when nobody holds the mutex
MutexIgnored(holder) == TRUE

MutexFree(holder) == holder = "none"

\* ------------------------------------------------------------ the inputs

Titles == {"t3"}

PriorityInputs == {"high", "urgent", ""}

\* values of time.Now() at an add, the local time being one second east of
\* UTC
Times == {<<3, 1, 1>>}

\* ids a -done or -delete flag names
IdInputs == 1..2

\* contents of storage/tasks.txt when the program starts: no file, a file
\* with a line that does not parse, a file in which two lines have one id
InitialFiles ==
    { Absent,
      << "2|t2|true|2006-01-02 15:04:01|urgent", "garbage",
         "1|t1|false|2006-01-02 15:04:02|high" >>,
      << "1|t1|false|2006-01-02 15:04:02|low",
         "1|t1b|true|2006-01-02 15:04:01|" >> }

\* ------------------------------------- IDGenerator and concurrent callers

\* NewIDGenerator(initialMaxID)
NewIDGenerator(initialMaxID) == initialMaxID + 1

\* g.mu.Lock() proceeds when no goroutine holds g.mu
MuAlwaysFree(holder) == TRUE

MuFree(holder) == holder = 0

\* g.nextID++
NoIncrement(n) == n

Increment(n) == n + 1

Greater(a, b) == IF a >= b THEN a ELSE b

Callers == 1..NumCallers

\* calls begun so far, returned or not
CallsStarted ==
    Cardinality({ck \in Callers \X (1..CallsPerCaller) :
                   ck[2] <= callsMade[ck[1]]
                              + (IF callerPc[ck[1]] = "idle" THEN 0 ELSE 1)})

\* NextID: g.mu.Lock()
NextIDLock(c) ==
    /\ Running
    /\ mPc \in {"callers", "updaters"}
    /\ callerPc[c] = "idle"
    /\ callsMade[c] < CallsPerCaller
    /\ MuFree(genMu)
    /\ mPc = "updaters" => CallsStarted < MaxMixedCalls
    /\ genMu' = c
    /\ callerPc' = [callerPc EXCEPT ![c] = "locked"]
    /\ callerFloor' = [callerFloor EXCEPT ![c] = doneMax]
    /\ UNCHANGED <<nextID, callerId, callsMade, returned, seed, callerCand, doneMax>>
    /\ UNCHANGED <<tasks, taskMutex, primaryFile, tmpFile, archiveFile>>
    /\ UNCHANGED <<procVars, loggerVars, mainVars, archVars>>

\* NextID: id := g.nextID
NextIDRead(c) ==
    /\ Running
    /\ callerPc[c] = "locked"
    /\ callerId' = [callerId EXCEPT ![c] = nextID]
    /\ callerPc' = [callerPc EXCEPT ![c] = "read"]
    /\ UNCHANGED <<nextID, genMu, callsMade, returned, seed, callerCand, callerFloor, doneMax>>
    /\ UNCHANGED <<tasks, taskMutex, primaryFile, tmpFile, archiveFile>>
    /\ UNCHANGED <<procVars, loggerVars, mainVars, archVars>>

\* NextID: g.nextID++
NextIDIncrement(c) ==
    /\ Running
    /\ callerPc[c] = "read"
    /\ nextID' = Increment(nextID)
    /\ callerPc' = [callerPc EXCEPT ![c] = "incremented"]
    /\ UNCHANGED <<genMu, callerId, callsMade, returned, seed, callerCand, callerFloor, doneMax>>
    /\ UNCHANGED <<tasks, taskMutex, primaryFile, tmpFile, archiveFile>>
    /\ UNCHANGED <<procVars, loggerVars, mainVars, archVars>>

\* NextID: the deferred g.mu.Unlock(), run when the function returns
NextIDUnlock(c) ==
    /\ Running
    /\ callerPc[c] = "incremented"
    /\ genMu' = 0
    /\ callerPc' = [callerPc EXCEPT ![c] = "unlocked"]
    /\ UNCHANGED <<nextID, callerId, callsMade, returned, seed, callerCand,
                   callerFloor, doneMax>>
    /\ UNCHANGED <<tasks, taskMutex, primaryFile, tmpFile, archiveFile>>
    /\ UNCHANGED <<procVars, loggerVars, mainVars, archVars>>

\* NextID: return id; the caller has the id once the call has returned
NextIDReturn(c) ==
    /\ Running
    /\ callerPc[c] = "unlocked"
    /\ returned' = returned (+) SetToBag({callerId[c]})
    /\ doneMax' = Greater(doneMax, callerId[c])
    /\ callsMade' = [callsMade EXCEPT ![c] = @ + 1]
    /\ callerPc' = [callerPc EXCEPT ![c] = "idle"]
    /\ UNCHANGED <<nextID, genMu, callerId, seed, callerCand, callerFloor>>
    /\ UNCHANGED <<tasks, taskMutex, primaryFile, tmpFile, archiveFile>>
    /\ UNCHANGED <<procVars, loggerVars, mainVars, archVars>>

\* g := NewIDGenerator(seed), then the callers are started
InitIdGen ==
    /\ InitProcVars
    /\ InitLoggerVars
    /\ InitIdle
    /\ mPc = "callers"
    /\ seed \in 0..MaxSeed
    /\ nextID = NewIDGenerator(seed)
    /\ genMu = 0
    /\ callerPc = [c \in Callers |-> "idle"]
    /\ callerId = [c \in Callers |-> 0]
    /\ callsMade = [c \in Callers |-> 0]
    /\ returned = EmptyBag
    /\ callerCand = [c \in Callers |-> 0]
    /\ callerFloor = [c \in Callers |-> 0]
    /\ doneMax = 0

NextIdGen ==
    \E c \in Callers :
        \/ NextIDLock(c)
        \/ NextIDRead(c)
        \/ NextIDIncrement(c)
        \/ NextIDUnlock(c)
        \/ NextIDReturn(c)

IdGenSpec == InitIdGen /\ [][NextIdGen]_vars

\* ---------------------------- IDGenerator: NextID and UpdateGenerator mixed

\* NewIDGenerator(5) of TestUpdateGenerator
TestSeed == 5

\* the maxID arguments of the UpdateGenerator calls
Candidates == {4, 5, 6, 10}

\* UpdateGenerator: if maxID >= g.nextID
UpdateRaisesStrict(maxID, n) == maxID > n

UpdateRaises(maxID, n) == maxID >= n

\* UpdateGenerator(maxID): g.mu.Lock()
UpdateLock(c, maxID) ==
    /\ Running
    /\ mPc = "updaters"
    /\ callerPc[c] = "idle"
    /\ callsMade[c] < CallsPerCaller
    /\ MuFree(genMu)
    /\ CallsStarted < MaxMixedCalls
    /\ genMu' = c
    /\ callerPc' = [callerPc EXCEPT ![c] = "ulocked"]
    /\ callerCand' = [callerCand EXCEPT ![c] = maxID]
    /\ UNCHANGED <<nextID, callerId, callsMade, returned, seed, callerFloor, doneMax>>
    /\ UNCHANGED <<tasks, taskMutex, primaryFile, tmpFile, archiveFile>>
    /\ UNCHANGED <<procVars, loggerVars, mainVars, archVars>>

\* UpdateGenerator: if maxID >= g.nextID { g.nextID = maxID + 1 }; callerId
\* keeps the value of g.nextID the comparison read
UpdateSet(c) ==
    /\ Running
    /\ callerPc[c] = "ulocked"
    /\ callerId' = [callerId EXCEPT ![c] = nextID]
    /\ nextID' = (IF UpdateRaises(callerCand[c], nextID)
                    THEN callerCand[c] + 1 ELSE nextID)
    /\ callerPc' = [callerPc EXCEPT ![c] = "uset"]
    /\ UNCHANGED <<genMu, callsMade, returned, seed, callerCand, callerFloor, doneMax>>
    /\ UNCHANGED <<tasks, taskMutex, primaryFile, tmpFile, archiveFile>>
    /\ UNCHANGED <<procVars, loggerVars, mainVars, archVars>>

\* UpdateGenerator: the deferred g.mu.Unlock()
UpdateUnlock(c) ==
    /\ Running
    /\ callerPc[c] = "uset"
    /\ genMu' = 0
    /\ callerPc' = [callerPc EXCEPT ![c] = "uunlocked"]
    /\ UNCHANGED <<nextID, callerId, callsMade, returned, seed, callerCand,
                   callerFloor, doneMax>>
    /\ UNCHANGED <<tasks, taskMutex, primaryFile, tmpFile, archiveFile>>
    /\ UNCHANGED <<procVars, loggerVars, mainVars, archVars>>

\* UpdateGenerator has returned to its caller
UpdateReturn(c) ==
    /\ Running
    /\ callerPc[c] = "uunlocked"
    /\ doneMax' = Greater(doneMax, callerCand[c])
    /\ callsMade' = [callsMade EXCEPT ![c] = @ + 1]
    /\ callerPc' = [callerPc EXCEPT ![c] = "idle"]
    /\ callerCand' = [callerCand EXCEPT ![c] = 0]
    /\ UNCHANGED <<nextID, genMu, callerId, returned, seed, callerFloor>>
    /\ UNCHANGED <<tasks, taskMutex, primaryFile, tmpFile, archiveFile>>
    /\ UNCHANGED <<procVars, loggerVars, mainVars, archVars>>

\* g := NewIDGenerator(seed), then goroutines call NextID and UpdateGenerator
InitIdGenUpdate ==
    /\ InitProcVars
    /\ InitLoggerVars
    /\ InitIdle
    /\ mPc = "updaters"
    /\ seed \in {0, TestSeed}
    /\ nextID = NewIDGenerator(seed)
    /\ genMu = 0
    /\ callerPc = [c \in Callers |-> "idle"]
    /\ callerId = [c \in Callers |-> 0]
    /\ callsMade = [c \in Callers |-> 0]
    /\ returned = EmptyBag
    /\ callerCand = [c \in Callers |-> 0]
    /\ callerFloor = [c \in Callers |-> 0]
    /\ doneMax = 0

NextIdGenUpdate ==
    \E c \in Callers :
        \/ NextIDLock(c)
        \/ NextIDRead(c)
        \/ NextIDIncrement(c)
        \/ NextIDUnlock(c)
        \/ NextIDReturn(c)
        \/ \E maxID \in Candidates : UpdateLock(c, maxID)
        \/ UpdateSet(c)
        \/ UpdateUnlock(c)
        \/ UpdateReturn(c)

IdGenUpdateSpec == InitIdGenUpdate /\ [][NextIdGenUpdate]_vars


\* ------------------------------------------------- the program: main()

\* the next position of main after a Log call: a panic ends the process
AfterLog(pc) == mPc' = IF proc' = "panicked" THEN mPc ELSE pc

\* what a step of main that only calls Log leaves alone
LogOnlyFrame ==
    /\ LogFrame
    /\ UNCHANGED <<ctxDone, wg, waitChan>>
    /\ UNCHANGED <<storeVars, archVars, genVars>>

\* appLogger.Run(ctx)
MainRunLogger ==
    /\ Running
    /\ mPc = "start"
    /\ Run
    /\ mPc' = "log_start"
    /\ UNCHANGED <<proc, ctxDone, waitChan, mCmd, saveErr, savedTasks>>
    /\ UNCHANGED <<storeVars, archVars, genVars>>

\* appLogger.Log("...")  after the logger is started
MainLogStart ==
    /\ Running
    /\ mPc = "log_start"
    /\ Log
    /\ AfterLog("load")
    /\ LogOnlyFrame
    /\ UNCHANGED <<mCmd, saveErr, savedTasks>>

\* tasks, maxID, loadErr = storage.LoadTasks(taskPath); the Log of the
\* outcome; idGen = utils.NewIDGenerator(maxID)
LoadErrorExits(ioError) ==
    /\ Running
    /\ mPc = "load"
    /\ LET r == LoadTasks(primaryFile, ioError) IN
         /\ tasks' = r.tasks
         /\ nextID' = NewIDGenerator(r.maxID)
    /\ Log
    /\ AfterLog(IF ioError THEN "exit" ELSE "run_archiver")
    /\ LogFrame
    /\ UNCHANGED <<ctxDone, wg, waitChan>>
    /\ UNCHANGED <<taskMutex, primaryFile, tmpFile, archiveFile>>
    /\ UNCHANGED <<genMu, callerPc, callerId, callsMade, returned, seed, callerCand, callerFloor, doneMax>>
    /\ UNCHANGED <<mCmd, saveErr, savedTasks, archVars>>

MainLoad(ioError) ==
    /\ Running
    /\ mPc = "load"
    /\ LET r == LoadTasks(primaryFile, ioError) IN
         /\ tasks' = r.tasks
         /\ nextID' = NewIDGenerator(r.maxID)
    /\ Log
    /\ AfterLog("run_archiver")
    /\ LogFrame
    /\ UNCHANGED <<ctxDone, wg, waitChan>>
    /\ UNCHANGED <<taskMutex, primaryFile, tmpFile, archiveFile>>
    /\ UNCHANGED <<genMu, callerPc, callerId, callsMade, returned, seed, callerCand, callerFloor, doneMax>>
    /\ UNCHANGED <<mCmd, saveErr, savedTasks, archVars>>

\* appArchiver.Run(ctx, archiverInterval): wg.Add(1), the goroutine is started
MainRunArchiver ==
    /\ Running
    /\ mPc = "run_archiver"
    /\ wg' = wg + 1
    /\ arPc' = "loop"
    /\ mPc' = "flags"
    /\ UNCHANGED <<proc, ctxDone, waitChan, tasksToArchive, archErr, ticks>>
    /\ UNCHANGED <<mCmd, saveErr, savedTasks>>
    /\ UNCHANGED <<loggerVars, storeVars, genVars>>

MainFrame ==
    /\ UNCHANGED <<procVars, loggerVars, archVars>>
    /\ UNCHANGED <<genMu, callerPc, callerId, callsMade, returned, seed, callerCand, callerFloor, doneMax>>
    /\ UNCHANGED <<saveErr, savedTasks>>

\* no flag: main goes on to wait for the context
MainNoCommand ==
    /\ Running
    /\ mPc = "flags"
    /\ mPc' = "wait_ctx"
    /\ UNCHANGED <<mCmd, nextID, tasks, taskMutex, primaryFile, tmpFile, archiveFile>>
    /\ MainFrame

\* handleAddTask: the priority switch, newTask := task.AddTask(idGen.NextID(), ...)
MainAddNew(title, priority, now) ==
    /\ Running
    /\ mPc = "flags"
    /\ mCmd' = <<"add", AddTask(nextID, title, NormalPriority(priority), now),
                 title, priority>>
    /\ nextID' = Increment(nextID)
    /\ mPc' = "add_lock"
    /\ UNCHANGED <<tasks, taskMutex, primaryFile, tmpFile, archiveFile>>
    /\ MainFrame

\* a handler's taskMutex.Lock()
MainLock(from, to) ==
    /\ Running
    /\ mPc = from
    /\ MutexFree(taskMutex)
    /\ taskMutex' = "main"
    /\ mPc' = to
    /\ UNCHANGED <<mCmd, nextID, tasks, primaryFile, tmpFile, archiveFile>>
    /\ MainFrame

MainAddLock == MainLock("add_lock", "add_append")

\* tasks = append(tasks, newTask); taskMutex.Unlock()
MainAddAppend ==
    /\ Running
    /\ mPc = "add_append"
    /\ tasks' = AppendRecord(tasks, mCmd[2])
    /\ taskMutex' = "none"
    /\ mPc' = "add_log"
    /\ UNCHANGED <<mCmd, nextID, primaryFile, tmpFile, archiveFile>>
    /\ MainFrame

\* appLogger.Log(logMsg) of handleAddTask
MainAddLog ==
    /\ Running
    /\ mPc = "add_log"
    /\ Log
    /\ AfterLog("wait_ctx")
    /\ LogOnlyFrame
    /\ UNCHANGED <<mCmd, saveErr, savedTasks>>

\* handleListTasks: taskMutex.Lock()
MainListLock ==
    /\ mPc = "flags"
    /\ mCmd' = <<"list">>
    /\ Running
    /\ MutexFree(taskMutex)
    /\ taskMutex' = "main"
    /\ mPc' = "list_copy"
    /\ UNCHANGED <<nextID, tasks, primaryFile, tmpFile, archiveFile>>
    /\ MainFrame

\* copy(tasksCopy, tasks); taskMutex.Unlock()
MainListCopy ==
    /\ Running
    /\ mPc = "list_copy"
    /\ mCmd' = <<"list", tasks>>
    /\ taskMutex' = "none"
    /\ mPc' = "list_log"
    /\ UNCHANGED <<nextID, tasks, primaryFile, tmpFile, archiveFile>>
    /\ MainFrame

\* the listing is printed from the copy; appLogger.Log(...)
MainListLog ==
    /\ Running
    /\ mPc = "list_log"
    /\ Log
    /\ AfterLog("wait_ctx")
    /\ LogOnlyFrame
    /\ UNCHANGED <<mCmd, saveErr, savedTasks>>

\* handleDoneTask(id): taskMutex.Lock()
MainDoneLock(id) ==
    /\ Running
    /\ mPc = "flags"
    /\ MutexFree(taskMutex)
    /\ taskMutex' = "main"
    /\ mCmd' = <<"done", id, "">>
    /\ mPc' = "done_body"
    /\ UNCHANGED <<nextID, tasks, primaryFile, tmpFile, archiveFile>>
    /\ MainFrame

\* handleDoneTask: the loop over tasks, one Log on each path, the deferred
\* taskMutex.Unlock()
MainDoneBody ==
    /\ Running
    /\ mPc = "done_body"
    /\ LET i == FirstIndex(tasks, mCmd[2]) IN
         /\ tasks' = IF i # 0 /\ ~tasks[i].Done THEN MarkDone(tasks, i) ELSE tasks
         /\ mCmd' = <<"done", mCmd[2],
                      IF i = 0 THEN "not found"
                      ELSE IF tasks[i].Done THEN "already done" ELSE "marked">>
    /\ Log
    /\ taskMutex' = "none"
    /\ AfterLog("wait_ctx")
    /\ LogFrame
    /\ UNCHANGED <<ctxDone, wg, waitChan>>
    /\ UNCHANGED <<nextID, primaryFile, tmpFile, archiveFile>>
    /\ UNCHANGED <<genMu, callerPc, callerId, callsMade, returned, seed, callerCand, callerFloor, doneMax>>
    /\ UNCHANGED <<saveErr, savedTasks, archVars>>

\* handleDeleteTask(id): taskMutex.Lock()
MainDeleteLock(id) ==
    /\ Running
    /\ mPc = "flags"
    /\ MutexFree(taskMutex)
    /\ taskMutex' = "main"
    /\ mCmd' = <<"delete", id, "">>
    /\ mPc' = "delete_body"
    /\ UNCHANGED <<nextID, tasks, primaryFile, tmpFile, archiveFile>>
    /\ MainFrame

\* handleDeleteTask: the search, the removal, one Log on each path, the
\* deferred taskMutex.Unlock()
DeleteKeepingLock ==
    /\ Running
    /\ mPc = "delete_body"
    /\ LET i == FirstIndex(tasks, mCmd[2]) IN
         /\ tasks' = IF i # 0 THEN SwapRemove(tasks, i) ELSE tasks
         /\ mCmd' = <<"delete", mCmd[2], IF i = 0 THEN "not found" ELSE "deleted">>
    /\ Log
    /\ taskMutex' = taskMutex
    /\ AfterLog("wait_ctx")
    /\ LogFrame
    /\ UNCHANGED <<ctxDone, wg, waitChan>>
    /\ UNCHANGED <<nextID, primaryFile, tmpFile, archiveFile>>
    /\ UNCHANGED <<genMu, callerPc, callerId, callsMade, returned, seed, callerCand, callerFloor, doneMax>>
    /\ UNCHANGED <<saveErr, savedTasks, archVars>>

MainDeleteBody ==
    /\ Running
    /\ mPc = "delete_body"
    /\ LET i == FirstIndex(tasks, mCmd[2]) IN
         /\ tasks' = IF i # 0 THEN SwapRemove(tasks, i) ELSE tasks
         /\ mCmd' = <<"delete", mCmd[2], IF i = 0 THEN "not found" ELSE "deleted">>
    /\ Log
    /\ taskMutex' = "none"
    /\ AfterLog("wait_ctx")
    /\ LogFrame
    /\ UNCHANGED <<ctxDone, wg, waitChan>>
    /\ UNCHANGED <<nextID, primaryFile, tmpFile, archiveFile>>
    /\ UNCHANGED <<genMu, callerPc, callerId, callsMade, returned, seed, callerCand, callerFloor, doneMax>>
    /\ UNCHANGED <<saveErr, savedTasks, archVars>>

\* <-ctx.Done(), then waitChan is made and the goroutine of wg.Wait started
MainCtxDone ==
    /\ Running
    /\ mPc = "wait_ctx"
    /\ ctxDone
    /\ waitChan' = "open"
    /\ mPc' = "wait1"
    /\ UNCHANGED <<proc, ctxDone, wg, mCmd, saveErr, savedTasks>>
    /\ UNCHANGED <<loggerVars, storeVars, archVars, genVars>>

\* the goroutine of main: wg.Wait() returns when the counter is zero;
\* close(waitChan)
WaitGroupWait ==
    /\ Running
    /\ waitChan = "open"
    /\ wg = 0
    /\ waitChan' = "closed"
    /\ UNCHANGED <<proc, ctxDone, wg>>
    /\ UNCHANGED <<loggerVars, storeVars, mainVars, archVars, genVars>>

\* a bounded wait of main: case <-waitChan
MainWaited(from, to) ==
    /\ Running
    /\ mPc = from
    /\ waitChan = "closed"
    /\ mPc' = to
    /\ UNCHANGED <<mCmd, saveErr, savedTasks>>
    /\ UNCHANGED <<procVars, loggerVars, storeVars, archVars, genVars>>

\* a bounded wait of main: case <-time.After(waitTimeout)
WaitWithoutTimeout(from, to) ==
    /\ Running
    /\ mPc = from
    /\ waitChan = "closed"
    /\ mPc' = to
    /\ UNCHANGED <<mCmd, saveErr, savedTasks>>
    /\ UNCHANGED <<procVars, loggerVars, storeVars, archVars, genVars>>

MainTimeout(from, to) ==
    /\ Running
    /\ mPc = from
    /\ waitChan # "closed"
    /\ mPc' = to
    /\ UNCHANGED <<mCmd, saveErr, savedTasks>>
    /\ UNCHANGED <<procVars, loggerVars, storeVars, archVars, genVars>>

MainWait1 == MainWaited("wait1", "save_lock")

MainWait1Timeout == MainTimeout("wait1", "save_lock")

\* taskMutex.Lock() before storage.SaveTasks(taskPath, tasks)
MainSaveLock ==
    /\ Running
    /\ mPc = "save_lock"
    /\ MutexFree(taskMutex)
    /\ taskMutex' = "main"
    /\ savedTasks' = tasks
    /\ mPc' = "save_tmp"
    /\ UNCHANGED <<mCmd, saveErr, nextID, tasks, primaryFile, tmpFile, archiveFile>>
    /\ UNCHANGED <<procVars, loggerVars, archVars>>
    /\ UNCHANGED <<genMu, callerPc, callerId, callsMade, returned, seed, callerCand, callerFloor, doneMax>>

SaveInPlace(outcome) ==
    /\ Running
    /\ mPc = "save_tmp"
    /\ primaryFile' = IF outcome = "ok" THEN TaskLines(tasks)
                      ELSE IF outcome = "create" THEN primaryFile ELSE <<>>
    /\ saveErr' = (outcome # "ok")
    /\ mPc' = "save_unlock"
    /\ UNCHANGED <<mCmd, savedTasks, nextID, tasks, taskMutex, tmpFile, archiveFile>>
    /\ UNCHANGED <<procVars, loggerVars, archVars>>
    /\ UNCHANGED <<genMu, callerPc, callerId, callsMade, returned, seed, callerCand, callerFloor, doneMax>>

\* SaveTasks: os.Create of the temporary file, the lines, Flush, Close.
\* outcome "ok": the temporary file holds the lines; "create": os.Create
\* failed and nothing is removed; "write": a write, the flush or the close
\* failed and the temporary file is removed
SaveTemp(outcome) ==
    /\ Running
    /\ mPc = "save_tmp"
    /\ tmpFile' = IF outcome = "ok" THEN TaskLines(tasks)
                  ELSE IF outcome = "create" THEN tmpFile ELSE Absent
    /\ saveErr' = (outcome # "ok")
    /\ mPc' = IF outcome = "ok" THEN "save_rename" ELSE "save_unlock"
    /\ UNCHANGED <<mCmd, savedTasks, nextID, tasks, taskMutex, primaryFile, archiveFile>>
    /\ UNCHANGED <<procVars, loggerVars, archVars>>
    /\ UNCHANGED <<genMu, callerPc, callerId, callsMade, returned, seed, callerCand, callerFloor, doneMax>>

\* SaveTasks: os.Rename(tempFilePath, filePath); on failure the temporary
\* file is removed
SaveRename(ok) ==
    /\ Running
    /\ mPc = "save_rename"
    /\ primaryFile' = IF ok THEN tmpFile ELSE primaryFile
    /\ tmpFile' = Absent
    /\ saveErr' = ~ok
    /\ mPc' = "save_unlock"
    /\ UNCHANGED <<mCmd, savedTasks, nextID, tasks, taskMutex, archiveFile>>
    /\ UNCHANGED <<procVars, loggerVars, archVars>>
    /\ UNCHANGED <<genMu, callerPc, callerId, callsMade, returned, seed, callerCand, callerFloor, doneMax>>

\* taskMutex.Unlock() after SaveTasks
MainSaveUnlock ==
    /\ Running
    /\ mPc = "save_unlock"
    /\ taskMutex' = "none"
    /\ mPc' = "save_log"
    /\ UNCHANGED <<mCmd, saveErr, savedTasks, nextID, tasks, primaryFile, tmpFile,
                   archiveFile>>
    /\ UNCHANGED <<procVars, loggerVars, archVars>>
    /\ UNCHANGED <<genMu, callerPc, callerId, callsMade, returned, seed, callerCand, callerFloor, doneMax>>

\* appLogger.Log(...) of the outcome of the save
MainSaveLog ==
    /\ Running
    /\ mPc = "save_log"
    /\ Log
    /\ AfterLog("close1")
    /\ LogOnlyFrame
    /\ UNCHANGED <<mCmd, saveErr, savedTasks>>

\* appLogger.Close()
MainClose(from, to) ==
    /\ Running
    /\ mPc = from
    /\ Close
    /\ mPc' = to
    /\ UNCHANGED <<mCmd, saveErr, savedTasks>>
    /\ UNCHANGED <<procVars, storeVars, archVars, genVars>>

MainClose1 == MainClose("close1", "wait2")

MainWait2 == MainWaited("wait2", "close2")

MainWait2Timeout == MainTimeout("wait2", "close2")

MainClose2 == MainClose("close2", "exit")

\* main returns: the process ends and its goroutines with it
MainExit ==
    /\ Running
    /\ mPc = "exit"
    /\ proc' = "exited"
    /\ mPc' = "returned"
    /\ UNCHANGED <<ctxDone, wg, waitChan, mCmd, saveErr, savedTasks>>
    /\ UNCHANGED <<loggerVars, storeVars, archVars, genVars>>

\* the signal goroutine of main: a signal arrives, cancel()
Signal ==
    /\ Running
    /\ mPc \notin {"client", "callers", "updaters"}
    /\ ~ctxDone
    /\ ctxDone' = TRUE
    /\ UNCHANGED <<proc, wg, waitChan>>
    /\ UNCHANGED <<loggerVars, storeVars, mainVars, archVars, genVars>>

\* ----------------------------------------------------------- the Archiver

ArchFrame ==
    /\ UNCHANGED <<proc, ctxDone, waitChan>>
    /\ UNCHANGED <<loggerVars, mainVars, genVars>>

\* select: case <-ticker.C, archiveCompletedTasks is called; the ticker has
\* ticked fewer than limit times. The select takes this case whenever a tick
\* is ready, the context cancelled or not: of two ready cases Go picks one
\* at random
TickWithoutPass(limit) ==
    /\ Running
    /\ arPc = "loop"
    /\ ticks < limit
    /\ ticks' = ticks + 1
    /\ arPc' = "loop"
    /\ UNCHANGED <<wg, tasksToArchive, archErr, storeVars>>
    /\ ArchFrame

ArchTickWithin(limit) ==
    /\ Running
    /\ arPc = "loop"
    /\ ticks < limit
    /\ ticks' = ticks + 1
    /\ arPc' = "lock"
    /\ UNCHANGED <<wg, tasksToArchive, archErr, storeVars>>
    /\ ArchFrame

ArchTick == ArchTickWithin(MaxTicks)

\* archiveCompletedTasks: a.taskMutex.Lock()
ArchLock ==
    /\ Running
    /\ arPc = "lock"
    /\ MutexFree(taskMutex)
    /\ taskMutex' = "archiver"
    /\ arPc' = "scan"
    /\ UNCHANGED <<wg, tasksToArchive, archErr, ticks>>
    /\ UNCHANGED <<tasks, nextID, primaryFile, tmpFile, archiveFile>>
    /\ ArchFrame

\* the loop copying the done tasks; a.taskMutex.Unlock(); nothing to archive
\* returns nil
ScanNotYetArchived ==
    LET fresh == SelectSeq(DoneTasks(tasks),
                           LAMBDA t : TaskLine(t) \notin Range(archiveFile)) IN
    /\ Running
    /\ arPc = "scan"
    /\ tasksToArchive' = fresh
    /\ taskMutex' = "none"
    /\ arPc' = IF fresh = <<>> THEN "loop" ELSE "append"
    /\ archErr' = FALSE
    /\ UNCHANGED <<wg, ticks>>
    /\ UNCHANGED <<tasks, nextID, primaryFile, tmpFile, archiveFile>>
    /\ ArchFrame

ScanKeepingLock ==
    /\ Running
    /\ arPc = "scan"
    /\ tasksToArchive' = DoneTasks(tasks)
    /\ arPc' = IF DoneTasks(tasks) = <<>> THEN "loop" ELSE "append"
    /\ archErr' = FALSE
    /\ UNCHANGED <<wg, ticks>>
    /\ UNCHANGED <<tasks, taskMutex, nextID, primaryFile, tmpFile, archiveFile>>
    /\ ArchFrame

ArchScan ==
    /\ Running
    /\ arPc = "scan"
    /\ tasksToArchive' = DoneTasks(tasks)
    /\ taskMutex' = "none"
    /\ arPc' = IF DoneTasks(tasks) = <<>> THEN "loop" ELSE "append"
    /\ archErr' = FALSE
    /\ UNCHANGED <<wg, ticks>>
    /\ UNCHANGED <<tasks, nextID, primaryFile, tmpFile, archiveFile>>
    /\ ArchFrame

AppendTruncating(file, ts, opened, n, failed) ==
    [file |-> IF ~opened THEN file ELSE SubSeq(TaskLines(ts), 1, n),
     diag |-> IF ~opened THEN <<>>
              ELSE [k \in 1..(Len(ts) + 1 - failed) |-> ts[failed + k - 1].ID],
     err |-> ~opened \/ n < Len(ts)]

\* storage.AppendTask(filePath, ts). opened: os.OpenFile succeeded, the file
\* exists from then on. The lines go through a bufio.Writer: n of them, the
\* first ones, have reached the file when the call returns, and failed is
\* the index of the first record whose WriteString returned an error,
\* Len(ts) + 1 when none did. The error of a bufio.Writer stays: every later
\* WriteString returns it, nothing more is written, and Flush returns it.
\* diag lists the ids of the records whose failure is printed; err is the
\* error returned
AppendTask(file, ts, opened, n, failed) ==
    [file |-> IF ~opened THEN file
              ELSE (IF file = Absent THEN <<>> ELSE file)
                     \o SubSeq(TaskLines(ts), 1, n),
     diag |-> IF ~opened THEN <<>>
              ELSE [k \in 1..(Len(ts) + 1 - failed) |-> ts[failed + k - 1].ID],
     err |-> ~opened \/ n < Len(ts)]

\* the ways a call AppendTask(filePath, ts) can go: <<opened, n, failed>>
AppendOutcomes(ts) ==
    {<<FALSE, 0, Len(ts) + 1>>}
      \cup {o \in {TRUE} \X (0..Len(ts)) \X (1..(Len(ts) + 1)) : o[2] < o[3]}

\* storage.AppendTask(a.archiverPath, tasksToArchive): all the lines are
\* appended, or the open, a write or the flush fails, only the first n lines
\* have reached the file (none when the open failed) and Run prints the error
AppendFailureFatal(n) ==
    /\ Running
    /\ arPc = "append"
    /\ n \in 0..Len(tasksToArchive)
    /\ archiveFile' = archiveFile \o SubSeq(TaskLines(tasksToArchive), 1, n)
    /\ archErr' = (n < Len(tasksToArchive))
    /\ arPc' = IF n < Len(tasksToArchive) THEN "done" ELSE "loop"
    /\ UNCHANGED <<wg, tasksToArchive, ticks>>
    /\ UNCHANGED <<tasks, taskMutex, nextID, primaryFile, tmpFile>>
    /\ ArchFrame

ArchAppend(n) ==
    /\ Running
    /\ arPc = "append"
    /\ n \in 0..Len(tasksToArchive)
    /\ LET r == AppendTask(archiveFile, tasksToArchive, TRUE, n,
                           Len(tasksToArchive) + 1) IN
         /\ archiveFile' = r.file
         /\ archErr' = r.err
    /\ arPc' = "loop"
    /\ UNCHANGED <<wg, tasksToArchive, ticks>>
    /\ UNCHANGED <<tasks, taskMutex, nextID, primaryFile, tmpFile>>
    /\ ArchFrame

\* select: case <-ctx.Done(): return, the deferred ticker.Stop() and a.wg.Done()
CtxDoneFinalPass ==
    /\ Running
    /\ arPc = "loop"
    /\ ctxDone
    /\ arPc' = "done"
    /\ wg' = wg - 1
    /\ archiveFile' = archiveFile \o TaskLines(DoneTasks(tasks))
    /\ UNCHANGED <<tasksToArchive, archErr, ticks>>
    /\ UNCHANGED <<tasks, taskMutex, nextID, primaryFile, tmpFile>>
    /\ ArchFrame

ArchCtxDone ==
    /\ Running
    /\ arPc = "loop"
    /\ ctxDone
    /\ arPc' = "done"
    /\ wg' = wg - 1
    /\ UNCHANGED <<tasksToArchive, archErr, ticks, storeVars>>
    /\ ArchFrame

ArchiverWorker ==
    \/ ArchTick
    \/ ArchLock
    \/ ArchScan
    \/ \E n \in 0..Len(tasksToArchive) : ArchAppend(n)
    \/ ArchCtxDone

\* ------------------------------------------------------ the specifications

\* the state when main() starts: the log file is open (NewLogger), the
\* primary file is one of InitialFiles
Init ==
    /\ InitProcVars
    /\ InitLoggerVars
    /\ InitGenIdle
    /\ tasks = <<>>
    /\ taskMutex = "none"
    /\ primaryFile \in InitialFiles
    /\ tmpFile = Absent
    /\ archiveFile = <<>>
    /\ mPc = "start"
    /\ mCmd = <<"none">>
    /\ saveErr = FALSE
    /\ savedTasks = <<>>
    /\ arPc = "none"
    /\ tasksToArchive = <<>>
    /\ archErr = FALSE
    /\ ticks = 0

\* the steps of main up to the wait for the context
MainStartup ==
    \/ MainRunLogger
    \/ MainLogStart
    \/ \E ioError \in BOOLEAN : MainLoad(ioError)
    \/ MainRunArchiver

\* the command of the run
MainCommand ==
    \/ MainNoCommand
    \/ \E title \in Titles, priority \in PriorityInputs, now \in Times :
           MainAddNew(title, priority, now)
    \/ MainAddLock
    \/ MainAddAppend
    \/ MainAddLog
    \/ MainListLock
    \/ MainListCopy
    \/ MainListLog
    \/ \E id \in IdInputs : MainDoneLock(id)
    \/ MainDoneBody
    \/ \E id \in IdInputs : MainDeleteLock(id)
    \/ MainDeleteBody

\* the shutdown sequence of main, the timers of the bounded waits apart
MainShutdown ==
    \/ MainCtxDone
    \/ MainWait1
    \/ MainSaveLock
    \/ \E outcome \in {"ok", "create", "write"} : SaveTemp(outcome)
    \/ \E ok \in BOOLEAN : SaveRename(ok)
    \/ MainSaveUnlock
    \/ MainSaveLog
    \/ MainClose1
    \/ MainWait2
    \/ MainClose2
    \/ MainExit

MainTimers ==
    \/ MainWait1Timeout
    \/ MainWait2Timeout

Next ==
    \/ MainStartup
    \/ MainCommand
    \/ MainShutdown
    \/ MainTimers
    \/ Signal
    \/ WaitGroupWait
    \/ LoggerWorker
    \/ ArchiverWorker

Spec == Init /\ [][Next]_vars

\* the program under fair scheduling of every goroutine; nothing is assumed
\* of the signal and of the timers of the bounded waits
FairSpec ==
    /\ Init
    /\ [][Next]_vars
    /\ WF_vars(MainStartup)
    /\ WF_vars(MainCommand)
    /\ WF_vars(MainShutdown)
    /\ WF_vars(WaitGroupWait)
    /\ WF_vars(LoggerWorker)
    /\ WF_vars(ArchiverWorker)

\* ------------------------------------ the program, from the command onwards

\* storage/tasks.txt of ArchiverSpec: a done task and a pending one
ArchiverFile == CHOOSE f \in InitialFiles : f # Absent /\ Len(f) = 3

\* the state of main when it reads the flags: both workers run, the two
\* messages of the startup are in the log file, the store holds the tasks of
\* ArchiverFile and the generator is seeded with their greatest id. The run
\* goes on with no command, with -done or with -delete
InitArchiver ==
    /\ proc = "running"
    /\ ctxDone = FALSE
    /\ wg = 2
    /\ waitChan = "none"
    /\ logChan = <<>>
    /\ chanClosed = FALSE
    /\ closed = FALSE
    /\ logFile = <<1, 2>>
    /\ fileOpen = TRUE
    /\ lgPc = "loop"
    /\ nLog = 2
    /\ accepted = <<1, 2>>
    /\ diag = {}
    /\ lateLogs = {}
    /\ closeCalls = 0
    /\ drained = FALSE
    /\ tasks = LoadTasks(ArchiverFile, FALSE).tasks
    /\ taskMutex = "none"
    /\ nextID = NewIDGenerator(LoadTasks(ArchiverFile, FALSE).maxID)
    /\ primaryFile = ArchiverFile
    /\ tmpFile = Absent
    /\ archiveFile = <<>>
    /\ mPc = "flags"
    /\ mCmd = <<"none">>
    /\ saveErr = FALSE
    /\ savedTasks = <<>>
    /\ arPc = "loop"
    /\ tasksToArchive = <<>>
    /\ archErr = FALSE
    /\ ticks = 0
    /\ genMu = 0
    /\ callerPc = [c \in Callers |-> "idle"]
    /\ callerId = [c \in Callers |-> 0]
    /\ callsMade = [c \in Callers |-> 0]
    /\ returned = EmptyBag
    /\ seed = 0
    /\ callerCand = [c \in Callers |-> 0]
    /\ callerFloor = [c \in Callers |-> 0]
    /\ doneMax = 0

\* the archiver, its ticker ticking up to MaxArchTicks times
ArchiverPasses ==
    \/ ArchTickWithin(MaxArchTicks)
    \/ ArchLock
    \/ ArchScan
    \/ \E n \in 0..Len(tasksToArchive) : ArchAppend(n)
    \/ ArchCtxDone

\* the commands that change which tasks of the store are done
ArchiverCommands ==
    \/ MainNoCommand
    \/ \E id \in IdInputs : MainDoneLock(id)
    \/ MainDoneBody
    \/ \E id \in IdInputs : MainDeleteLock(id)
    \/ MainDeleteBody

NextArchiver ==
    \/ ArchiverCommands
    \/ MainShutdown
    \/ MainTimers
    \/ Signal
    \/ WaitGroupWait
    \/ LoggerWorker
    \/ ArchiverPasses

ArchiverSpec == InitArchiver /\ [][NextArchiver]_vars

\* ArchiverSpec under fair scheduling of main and of the workers, the ticker
\* ticking as long as it has ticks left; nothing is assumed of the signal
\* and of the timers of the bounded waits
FairArchiverSpec ==
    /\ InitArchiver
    /\ [][NextArchiver]_vars
    /\ WF_vars(ArchiverCommands)
    /\ WF_vars(MainShutdown)
    /\ WF_vars(WaitGroupWait)
    /\ WF_vars(LoggerWorker)
    /\ WF_vars(ArchiverPasses)

\* ------------------------------------------- the program, run after run
\* The program is started, runs one command and ends; it is then started
\* again on the storage/tasks.txt the ended run has left. returned is the
\* bag of the ids that tasks of the runs so far have had: the ids of the
\* records in the file at the start of each run.

\* the ids of the records LoadTasks finds in a file
FileIds(file) ==
    {LoadTasks(file, FALSE).tasks[i].ID : i \in DOMAIN LoadTasks(file, FALSE).tasks}

InitRestart ==
    /\ InitProcVars
    /\ InitLoggerVars
    /\ nextID = 1
    /\ genMu = 0
    /\ callerPc = [c \in Callers |-> "idle"]
    /\ callerId = [c \in Callers |-> 0]
    /\ callsMade = [c \in Callers |-> 0]
    /\ returned = SetToBag(FileIds(ArchiverFile))
    /\ seed = 0
    /\ callerCand = [c \in Callers |-> 0]
    /\ callerFloor = [c \in Callers |-> 0]
    /\ doneMax = 0
    /\ tasks = <<>>
    /\ taskMutex = "none"
    /\ primaryFile = ArchiverFile
    /\ tmpFile = Absent
    /\ archiveFile = <<>>
    /\ mPc = "start"
    /\ mCmd = <<"none">>
    /\ saveErr = FALSE
    /\ savedTasks = <<>>
    /\ arPc = "none"
    /\ tasksToArchive = <<>>
    /\ archErr = FALSE
    /\ ticks = 0

\* the process has ended, by the return of main or by a panic, in a run that
\* deleted a task; the program is started again. Its memory is new; the
\* primary file is as the ended run left it. logFile and archiveFile hold
\* the lines of the run only: the lines of earlier runs are left out
Restart ==
    /\ proc # "running"
    /\ IF mCmd[1] = "delete" THEN mCmd[3] = "deleted" ELSE FALSE
    /\ proc' = "running"
    /\ ctxDone' = FALSE
    /\ wg' = 0
    /\ waitChan' = "none"
    /\ logChan' = <<>>
    /\ chanClosed' = FALSE
    /\ closed' = FALSE
    /\ logFile' = <<>>
    /\ fileOpen' = TRUE
    /\ lgPc' = "none"
    /\ nLog' = 0
    /\ accepted' = <<>>
    /\ diag' = {}
    /\ lateLogs' = {}
    /\ closeCalls' = 0
    /\ drained' = FALSE
    /\ tasks' = <<>>
    /\ taskMutex' = "none"
    /\ nextID' = 1
    /\ archiveFile' = <<>>
    /\ mPc' = "start"
    /\ mCmd' = <<"none">>
    /\ saveErr' = FALSE
    /\ savedTasks' = <<>>
    /\ arPc' = "none"
    /\ tasksToArchive' = <<>>
    /\ archErr' = FALSE
    /\ ticks' = 0
    /\ returned' = SetToBag(BagToSet(returned) \cup FileIds(primaryFile))
    /\ UNCHANGED <<primaryFile, tmpFile>>
    /\ UNCHANGED <<genMu, callerPc, callerId, callsMade, seed, callerCand, callerFloor, doneMax>>

\* the commands that assign an id or take a task out of the store
RestartCommands ==
    \/ MainNoCommand
    \/ \E title \in Titles, priority \in PriorityInputs, now \in Times :
           MainAddNew(title, priority, now)
    \/ MainAddLock
    \/ MainAddAppend
    \/ MainAddLog
    \/ \E id \in IdInputs : MainDeleteLock(id)
    \/ MainDeleteBody

NextRestart ==
    \/ MainStartup
    \/ RestartCommands
    \/ MainShutdown
    \/ MainTimers
    \/ Signal
    \/ WaitGroupWait
    \/ LoggerWorker
    \/ ArchiverWorker
    \/ Restart

RestartSpec == InitRestart /\ [][NextRestart]_vars

\* ------------------------------------------- pkg/storage, called directly
\* A caller of the package, as its tests are: primaryFile is the file at the
\* path handed to every call, tmpFile the file at that path with ".tmp"
\* added. mCmd records the last call: its name, the file as the call found
\* it, and what the call was given and returned.

\* records handed to SaveTasks and AppendTask: the fraction of a second and
\* the location of a timestamp, the separator and a newline in a title
StorageRecords ==
    { [ID |-> 1, Title |-> "a", Done |-> FALSE, CreatedAt |-> <<1, 0, 0>>,
       Priority |-> "low"],
      [ID |-> 12, Title |-> "b", Done |-> TRUE, CreatedAt |-> <<2, 7, 1>>,
       Priority |-> "high"],
      [ID |-> 3, Title |-> "c|d", Done |-> TRUE, CreatedAt |-> <<3, 0, 0>>,
       Priority |-> "medium"],
      [ID |-> 4, Title |-> "e\nf", Done |-> FALSE, CreatedAt |-> <<4, 0, 0>>,
       Priority |-> "medium"] }

RecordSeqs == UNION {[1..n -> StorageRecords] : n \in 0..MaxRecords}

\* contents of the file before the first call: no file; an empty file; the
\* lines of TestLoadTasks_InvalidData with an empty line, a signed id, the
\* short forms of the booleans and a line with more than four separators
\* added; the ids of TestLoadTasks_ValidData; a file whose ids are negative
StorageFiles ==
    { Absent,
      <<>>,
      << "1|v1|false|2006-01-02 15:04:01|high",
         "x|bad id|false|2006-01-02 15:04:02|low",
         "3|bad bool|maybe|2006-01-02 15:04:03|low",
         "4|bad time|true|yesterday|low",
         "5|odd priority|true|2006-01-02 15:04:05|urgent",
         "6|few|true",
         "",
         "7|v7|true|2006-01-02 15:04:07|low",
         "+8|many|1|2006-01-02 15:04:08|low|more",
         "2|short|F|2006-01-02 15:04:09|" >>,
      << "10|v10|false|2006-01-02 15:04:01|high",
         "5|v5|true|2006-01-02 15:04:02|medium",
         "15|v15|false|2006-01-02 15:04:03|low" >>,
      << "-3|n3|false|2006-01-02 15:04:01|low",
         "-2|n2|true|2006-01-02 15:04:02|low" >> }

InitStorage ==
    /\ InitProcVars
    /\ InitLoggerVars
    /\ InitGenIdle
    /\ tasks = <<>>
    /\ taskMutex = "none"
    /\ primaryFile \in StorageFiles
    /\ tmpFile = Absent
    /\ archiveFile = <<>>
    /\ mPc = "storage"
    /\ mCmd = <<"none">>
    /\ saveErr = FALSE
    /\ savedTasks = <<>>
    /\ arPc = "none"
    /\ tasksToArchive = <<>>
    /\ archErr = FALSE
    /\ ticks = 0

\* the parts of the state a call of the package leaves alone
StorageFrame ==
    /\ UNCHANGED <<nextID, taskMutex, archiveFile>>
    /\ UNCHANGED <<procVars, loggerVars, archVars>>
    /\ UNCHANGED <<genMu, callerPc, callerId, callsMade, returned, seed, callerCand, callerFloor, doneMax>>

\* SaveTasks(filePath, ts) is entered
StorageSave(ts) ==
    /\ Running
    /\ mPc = "storage"
    /\ tasks' = ts
    /\ savedTasks' = ts
    /\ mCmd' = <<"save", primaryFile>>
    /\ mPc' = "save_tmp"
    /\ UNCHANGED <<saveErr, primaryFile, tmpFile>>
    /\ StorageFrame

\* AppendTask(filePath, ts), going the way o
StorageAppend(ts, o) ==
    /\ Running
    /\ mPc = "storage"
    /\ o \in AppendOutcomes(ts)
    /\ LET r == AppendTask(primaryFile, ts, o[1], o[2], o[3]) IN
         /\ primaryFile' = r.file
         /\ mCmd' = <<"append", primaryFile, ts, o, r.err, r.diag>>
    /\ mPc' = "appended"
    /\ UNCHANGED <<tasks, saveErr, savedTasks, tmpFile>>
    /\ StorageFrame

\* LoadTasks(filePath): tasks is the sequence returned
StorageLoad(ioError) ==
    /\ Running
    /\ mPc \in {"storage", "save_unlock", "appended"}
    /\ LET r == LoadTasks(primaryFile, ioError) IN
         /\ tasks' = r.tasks
         /\ mCmd' = <<"load", primaryFile, r.maxID, r.err, mCmd[1]>>
    /\ mPc' = "loaded"
    /\ UNCHANGED <<saveErr, savedTasks, primaryFile, tmpFile>>
    /\ StorageFrame

NextStorage ==
    \/ \E ts \in RecordSeqs : StorageSave(ts)
    \/ \E outcome \in {"ok", "create", "write"} : SaveTemp(outcome)
    \/ \E ok \in BOOLEAN : SaveRename(ok)
    \/ \E ts \in RecordSeqs : \E o \in AppendOutcomes(ts) : StorageAppend(ts, o)
    \/ \E ioError \in BOOLEAN : StorageLoad(ioError)

StorageSpec == InitStorage /\ [][NextStorage]_vars

\* ===================================================== claims: the Logger

\* C1 (as claimed): every Log call returns, in every state of the logger,
\* having either enqueued its message or dropped it with a diagnostic; it
\* never ends the process.
C1_LogAlwaysReturns ==
    [][nLog' # nLog =>
         /\ proc' = "running"
         /\ \/ nLog' \in Range(logChan')
            \/ \E k \in {"closed", "full"} : <<k, nLog'>> \in diag']_vars

\* C5 (as claimed): when the worker has signalled completion, every message
\* Log accepted is in the log file exactly once.
C5_Original ==
    lgPc = "done" => \A m \in Range(accepted) : Count(logFile, m) = 1

\* C5 (amended): no message is ever in the log file twice and only accepted
\* messages are; when the worker has signalled completion the queue is empty
\* and every accepted message is in the file exactly once, or its WriteString
\* failed, which was reported, and it is not in the file.
C5_AcceptedWrittenOnceUnlessWriteFails ==
    /\ \A m \in Range(logFile) : Count(logFile, m) = 1 /\ m \in Range(accepted)
    /\ lgPc = "done" =>
         /\ logChan = <<>>
         /\ \A m \in Range(accepted) :
              \/ Count(logFile, m) = 1
              \/ Count(logFile, m) = 0 /\ <<"write", m>> \in diag

\* C5 witness: the worker is done, every accepted message is in the file and
\* they are more than the channel holds: some were written by the normal loop
\* and some by the drain after cancellation
C5_Witness ==
    /\ lgPc = "done"
    /\ drained
    /\ Len(accepted) > bufferSize
    /\ Len(logFile) = Len(accepted)

\* C6: the messages in the log file are accepted messages, in the order in
\* which Log enqueued them.
C6_FileInEnqueueOrder ==
    /\ Range(logFile) \subseteq Range(accepted)
    /\ \A i, j \in DOMAIN logFile :
         i < j => Pos(accepted, logFile[i]) < Pos(accepted, logFile[j])

\* C6 witness: a finished run in which a message was dropped on a full queue
\* and both the normal loop and the drain wrote messages
C6_Witness ==
    /\ lgPc = "done"
    /\ Len(logFile) >= 3
    /\ \E m \in 1..nLog : <<"full", m>> \in diag
    /\ drained

\* C7 (as claimed): a Log call made when the queue holds bufferSize messages
\* leaves the queue as it is and returns; the queue never holds more than
\* bufferSize messages.
C7_FullQueueDropsNewest ==
    [][(nLog' # nLog /\ Len(logChan) = bufferSize) =>
          /\ logChan' = logChan
          /\ Len(logChan') <= bufferSize
          /\ proc' = "running"]_vars

\* C8 (as claimed): a message passed to Log after Close() is never in the
\* file; once the worker has terminated every accepted message is.
C8_Original ==
    /\ \A m \in lateLogs : m \notin Range(logFile)
    /\ lgPc = "done" => \A m \in Range(accepted) : m \in Range(logFile)

\* C8 (amended): a message passed to Log after Close() is never in the queue
\* nor in the file; once the worker has terminated every message accepted
\* (all of them before Close()) is in the file unless its WriteString failed
\* and was reported.
C8_LateLogsNeverWritten ==
    /\ \A m \in lateLogs : m \notin Range(logFile) /\ m \notin Range(logChan)
    /\ lgPc = "done" =>
         \A m \in Range(accepted) :
             m \notin lateLogs /\ (m \in Range(logFile) \/ <<"write", m>> \in diag)

\* C8 witness: Log was called after Close() while the worker still had earlier
\* messages to drain
C8_Witness ==
    /\ lateLogs # {}
    /\ lgPc = "drain"
    /\ logChan # <<>>
    /\ logFile # <<>>

\* C9: a Close() call changes nothing but l.closed (and nothing at all when
\* the logger is closed already); the worker leaves its loop only after the
\* context is cancelled, and on a closed logger it still receives what is
\* queued.
C9_CloseIdempotentIndependent ==
    /\ [][closeCalls' # closeCalls =>
            /\ closed'
            /\ closed => closed'= closed
            /\ <<lgPc, ctxDone, chanClosed, logChan, logFile, fileOpen, wg, proc,
                 nLog, accepted, diag>>'
                 = <<lgPc, ctxDone, chanClosed, logChan, logFile, fileOpen, wg,
                     proc, nLog, accepted, diag>>]_vars
    /\ [](lgPc \in {"drain", "exiting", "fileclosed", "done"} => ctxDone)
    /\ []((Running /\ closed /\ lgPc = "loop" /\ logChan # <<>>)
             => ENABLED LoggerRecv(TRUE))

\* C9 witness: Close() was called twice, the context is not cancelled, the
\* worker is in its loop with a message still queued
C9_Witness ==
    /\ closeCalls = 2
    /\ closed
    /\ ~ctxDone
    /\ lgPc = "loop"
    /\ logChan # <<>>
    /\ logFile # <<>>

\* the worker's state of the shutdown state machine: Running while it is in
\* its select loop, Draining from close(l.logChan) to the end of the range
\* loop, Stopped once it has called wg.Done(); 0 before Run, and the two
\* deferred calls lie between Draining and Stopped
WorkerPhase(pc) ==
    IF pc = "none" THEN 0
    ELSE IF pc = "loop" THEN 1
    ELSE IF pc = "drain" THEN 2
    ELSE IF pc = "exiting" THEN 3
    ELSE IF pc = "fileclosed" THEN 4
    ELSE 5

\* C31: the logger worker only moves Running -> Draining -> Stopped, one
\* step at a time and never back; the queue is closed once only, by the step
\* of the worker that takes it from Running to Draining, and only when the
\* context is cancelled; the file is closed only when the closed queue is
\* empty and the drain has ended; the worker signals completion only when
\* the file is closed, and the file is never opened again
C31_WorkerShutdownStateMachine ==
    /\ [][WorkerPhase(lgPc') \in {WorkerPhase(lgPc), WorkerPhase(lgPc) + 1}]_vars
    /\ [][chanClosed' # chanClosed =>
            /\ ~chanClosed
            /\ ctxDone
            /\ lgPc = "loop"
            /\ lgPc' = "drain"]_vars
    /\ [][(lgPc = "loop" /\ lgPc' = "drain") => (~chanClosed /\ chanClosed')]_vars
    /\ [](chanClosed <=> WorkerPhase(lgPc) >= 2)
    /\ [][fileOpen' # fileOpen =>
            /\ fileOpen
            /\ lgPc = "exiting"
            /\ chanClosed
            /\ logChan = <<>>]_vars
    /\ [][(lgPc' = "done" /\ lgPc # "done") => (~fileOpen /\ wg' = wg - 1)]_vars
    /\ [][wg' < wg => (lgPc' = "done" /\ lgPc = "fileclosed")]_vars

\* the worker has stopped after a drain that wrote a message: the queue is
\* closed and empty, the file closed, the completion signalled
C31_Witness ==
    /\ lgPc = "done"
    /\ drained
    /\ chanClosed
    /\ logChan = <<>>
    /\ ~fileOpen
    /\ wg = 0
    /\ logFile # <<>>

\* ============================================== claims: the id generator

\* C10: no id is returned twice, and whenever no call is in progress the N
\* ids returned so far are exactly seed+1 .. seed+N and the counter is
\* seed+N+1.
C10_DistinctConsecutiveIds ==
    LET N == BagCardinality(returned) IN
    /\ \A id \in BagToSet(returned) : CopiesIn(id, returned) = 1
    /\ (\A c \in Callers : callerPc[c] = "idle") =>
          /\ BagToSet(returned) = (seed + 1)..(seed + N)
          /\ nextID = seed + N + 1

\* C10 witness: every caller has made all its calls and the calls of
\* different callers were interleaved: the last id of one caller lies
\* between two ids of another
C10_Witness ==
    /\ \A c \in Callers : callerPc[c] = "idle" /\ callsMade[c] = CallsPerCaller
    /\ BagCardinality(returned) = NumCallers * CallsPerCaller
    /\ seed > 0
    /\ \E c, d \in Callers : c # d /\ callerId[c] = nextID - 2 /\ callerId[d] = nextID - 1

\* C11: an UpdateGenerator(c) call that found the counter at n leaves it at
\* c+1 when c >= n and at n otherwise (the counter is that for as long as
\* the call holds the lock); with the counter at 6 the candidates 4 and 5
\* leave it at 6 and the candidate 10 makes it 11.
C11_UpdateRaisesOrKeeps ==
    \A c \in Callers :
        callerPc[c] = "uset" =>
            LET n == callerId[c]
                m == callerCand[c]
            IN /\ m >= n => nextID = m + 1
               /\ m < n => nextID = n
               /\ (n = 6 /\ m \in {4, 5}) => nextID = 6
               /\ (n = 6 /\ m = 10) => nextID = 11

\* C11 witness: UpdateGenerator(10) found the counter at 6 and made it 11,
\* after an UpdateGenerator call of another caller, not yet returned, that
\* found it at 6 too and was a no-op
C11_Witness ==
    \E c \in Callers :
        /\ callerPc[c] = "uset"
        /\ callerCand[c] = 10
        /\ callerId[c] = 6
        /\ nextID = 11
        /\ \E d \in Callers \ {c} :
               callerPc[d] = "uunlocked" /\ callerCand[d] \in {4, 5} /\ callerId[d] = 6

\* C12 (as claimed): the counter never decreases, and the id a NextID call
\* returns is greater than every id and every UpdateGenerator candidate of
\* the calls that returned before it did.
C12_Original ==
    /\ [][nextID' >= nextID]_vars
    /\ [][\A c \in Callers :
            (callerPc[c] = "unlocked" /\ callerPc'[c] = "idle") =>
                callerId[c] > doneMax]_vars

\* C12 (amended): the counter never decreases, and the id of a NextID call
\* is greater than every id and every UpdateGenerator candidate of the calls
\* that had returned when this call took the lock (so of every call that
\* returned before this call began).
C12_IdsAboveCompletedCalls ==
    /\ [][nextID' >= nextID]_vars
    /\ [](\A c \in Callers :
            callerPc[c] \in {"read", "incremented", "unlocked"} =>
                callerId[c] > callerFloor[c])

\* C12 witness: a NextID call that began after UpdateGenerator(10) and a
\* NextID returning 11 had returned is about to return 12
C12_Witness ==
    \E c \in Callers :
        /\ callerPc[c] = "unlocked"
        /\ callerFloor[c] = 11
        /\ callerId[c] = 12
        /\ BagCardinality(returned) = 1
        /\ nextID = 13

\* ====================================================== claims: the store

\* C13 (as claimed): no two records of the store have the same id.
C13_UniqueIds ==
    \A i, j \in DOMAIN tasks : i # j => tasks[i].ID # tasks[j].ID

\* C14: every record of the store has the priority high, medium or low.
C14_PriorityEnumerated ==
    \A k \in DOMAIN tasks : tasks[k].Priority \in {"high", "medium", "low"}

\* C14 witness: a record decoded from a line with the priority "urgent" and a
\* record added with the empty priority are both in the store as medium
C14_Witness ==
    /\ mPc = "add_log"
    /\ mCmd[1] = "add"
    /\ mCmd[4] = ""
    /\ Len(tasks) = 3
    /\ tasks[1].ID = 2
    /\ tasks[1].Priority = "medium"
    /\ tasks[3].Priority = "medium"

\* C15: the body of handleDoneTask(id) does one of three things: no record
\* has the id, the store is unchanged and "not found" is reported; the first
\* record with the id is done, the store is unchanged and "already done" is
\* reported; otherwise the store afterwards is the store before with the done
\* flag of that first record set, and nothing else changed. And no step
\* leaves in the store a pending record that was not a pending record of it
\* before, unless it is the load or the append of a new record.
C15_MarkDoneOutcomes ==
    /\ [][(mPc = "done_body" /\ mCmd' # mCmd) =>
            LET M == {k \in DOMAIN tasks : tasks[k].ID = mCmd[2]} IN
            IF M = {}
              THEN tasks' = tasks /\ mCmd'[3] = "not found"
              ELSE LET f == CHOOSE k \in M : \A j \in M : k <= j IN
                   IF tasks[f].Done
                     THEN tasks' = tasks /\ mCmd'[3] = "already done"
                     ELSE /\ mCmd'[3] = "marked"
                          /\ DOMAIN tasks' = DOMAIN tasks
                          /\ \A k \in DOMAIN tasks \ {f} : tasks'[k] = tasks[k]
                          /\ tasks'[f] = [ID |-> tasks[f].ID, Title |-> tasks[f].Title,
                                          Done |-> TRUE,
                                          CreatedAt |-> tasks[f].CreatedAt,
                                          Priority |-> tasks[f].Priority]]_vars
    /\ [][mPc \notin {"load", "add_append"} =>
            \A k \in DOMAIN tasks' :
                ~tasks'[k].Done => \E j \in DOMAIN tasks : tasks[j] = tasks'[k]]_vars

\* C15 witness: -done 1 on a store whose two records both have the id 1: the
\* first was pending and is marked, the second was done before
C15_Witness ==
    /\ mCmd = <<"done", 1, "marked">>
    /\ Len(tasks) = 2
    /\ tasks[1].Title = "t1"
    /\ tasks[1].Done
    /\ tasks[2].ID = 1
    /\ tasks[2].Title = "t1b"

\* C16: the body of handleDeleteTask(id): when no record has the id the store
\* is unchanged and "not found" is reported; otherwise the store is one
\* shorter, the first record with the id has one occurrence less and every
\* other record is in the store as often as before, unchanged.
C16_DeleteRemovesFirstMatch ==
    [][(mPc = "delete_body" /\ mCmd' # mCmd) =>
          LET M == {k \in DOMAIN tasks : tasks[k].ID = mCmd[2]} IN
          IF M = {}
            THEN tasks' = tasks /\ mCmd'[3] = "not found"
            ELSE LET f == CHOOSE k \in M : \A j \in M : k <= j IN
                 /\ mCmd'[3] = "deleted"
                 /\ Len(tasks') = Len(tasks) - 1
                 /\ Range(tasks') \subseteq Range(tasks)
                 /\ \A r \in Range(tasks) :
                      Count(tasks', r) = Count(tasks, r) - (IF r = tasks[f] THEN 1 ELSE 0)]_vars

\* C16 witness: -delete 2 removed the first of two records; the record that
\* was last is now first
C16_Witness ==
    /\ mCmd = <<"delete", 2, "deleted">>
    /\ Len(tasks) = 1
    /\ tasks[1].ID = 1
    /\ tasks[1].Title = "t1"

\* C17: the append of handleAddTask makes the store one longer, leaves every
\* record at its place unchanged and puts last a record with the id the
\* generator just issued, the title given and done = false; no other step of
\* the add changes the store.
C17_AddAppendsOne ==
    /\ [][(mPc = "add_append" /\ mPc' # mPc) =>
            /\ Len(tasks') = Len(tasks) + 1
            /\ \A k \in DOMAIN tasks : tasks'[k] = tasks[k]
            /\ tasks'[Len(tasks')].ID = nextID - 1
            /\ tasks'[Len(tasks')].Title = mCmd[3]
            /\ tasks'[Len(tasks')].Done = FALSE]_vars
    /\ [][(mCmd[1] = "add" /\ mPc # "add_append") => tasks' = tasks]_vars

\* C17 witness: a record was added to a store of two records
C17_Witness ==
    /\ mCmd[1] = "add"
    /\ mPc = "add_log"
    /\ Len(tasks) = 3
    /\ tasks[3].ID = 3
    /\ tasks[3].Title = "t3"
    /\ tasks[1].ID = 2
    /\ tasks[2].ID = 1

\* C18: a step other than the delete leaves every record at its place with
\* its id, title, creation time and priority; the delete only leaves records
\* that were in the store, unchanged; the steps of the archiver do not change
\* the store.
C18_RecordFieldsImmutable ==
    [][/\ mPc # "delete_body" =>
            /\ Len(tasks') >= Len(tasks)
            /\ \A k \in DOMAIN tasks :
                 <<tasks'[k].ID, tasks'[k].Title, tasks'[k].CreatedAt, tasks'[k].Priority>>
                   = <<tasks[k].ID, tasks[k].Title, tasks[k].CreatedAt, tasks[k].Priority>>
       /\ mPc = "delete_body" =>
            \A k \in DOMAIN tasks' : \E j \in DOMAIN tasks : tasks'[k] = tasks[j]
       /\ (arPc' # arPc \/ ticks' # ticks \/ tasksToArchive' # tasksToArchive) =>
            tasks' = tasks]_vars

\* C18 witness: a record has been marked done and the archiver has archived it
C18_Witness ==
    /\ mCmd = <<"done", 1, "marked">>
    /\ Len(tasks) = 2
    /\ tasks[2].ID = 1
    /\ tasks[2].Done
    /\ tasks[2].CreatedAt = <<2, 0, 0>>
    /\ ticks = 1
    /\ arPc = "loop"
    /\ Len(archiveFile) = 2

\* C19 (as claimed): the scan of an archive pass runs with the store lock
\* held by the archiver and main at no step that reads or writes the store,
\* and keeps exactly the done records of the store, in store order; the pass
\* then appends the lines of exactly these records to the archive file, or
\* nothing when there is none; no step of the archiver changes the store and
\* no other step changes the archive file.
C19_Original ==
    /\ [](arPc = "scan" =>
            /\ taskMutex = "archiver"
            /\ mPc \notin {"add_append", "list_copy", "done_body", "delete_body",
                           "save_tmp", "save_rename", "save_unlock"})
    /\ [][/\ (arPc = "scan" /\ arPc' # arPc) =>
               /\ tasks' = tasks
               /\ archiveFile' = archiveFile
               /\ tasksToArchive' = SelectSeq(tasks, LAMBDA t : t.Done)
               /\ arPc' = (IF \E k \in DOMAIN tasks : tasks[k].Done
                             THEN "append" ELSE "loop")
          /\ (arPc = "append" /\ arPc' # arPc) =>
               /\ tasks' = tasks
               /\ archiveFile' = archiveFile \o
                    [k \in DOMAIN tasksToArchive |->
                       Itoa(tasksToArchive[k].ID) \o "|" \o tasksToArchive[k].Title
                         \o "|" \o FormatBool(tasksToArchive[k].Done) \o "|"
                         \o FormatTime(tasksToArchive[k].CreatedAt) \o "|"
                         \o tasksToArchive[k].Priority]
          /\ arPc # "append" => archiveFile' = archiveFile]_vars

\* C19 (amended): as C19, but the pass appends the lines of all the done
\* records of the snapshot only when AppendTask returns no error; when it
\* returns an error, fewer of these lines, the first ones, were appended.
C19_ArchivePassAppendsDoneSnapshot ==
    /\ [](arPc = "scan" =>
            /\ taskMutex = "archiver"
            /\ mPc \notin {"add_append", "list_copy", "done_body", "delete_body",
                           "save_tmp", "save_rename", "save_unlock"})
    /\ [][/\ (arPc = "scan" /\ arPc' # arPc) =>
               /\ tasks' = tasks
               /\ archiveFile' = archiveFile
               /\ tasksToArchive' = SelectSeq(tasks, LAMBDA t : t.Done)
               /\ arPc' = (IF \E k \in DOMAIN tasks : tasks[k].Done
                             THEN "append" ELSE "loop")
          /\ (arPc = "append" /\ arPc' # arPc) =>
               LET lines == [k \in DOMAIN tasksToArchive |->
                               Itoa(tasksToArchive[k].ID) \o "|"
                                 \o tasksToArchive[k].Title \o "|"
                                 \o FormatBool(tasksToArchive[k].Done) \o "|"
                                 \o FormatTime(tasksToArchive[k].CreatedAt) \o "|"
                                 \o tasksToArchive[k].Priority]
               IN /\ tasks' = tasks
                  /\ ~archErr' => archiveFile' = archiveFile \o lines
                  /\ archErr' => \E n \in 0..(Len(lines) - 1) :
                                    archiveFile' = archiveFile \o SubSeq(lines, 1, n)
          /\ arPc # "append" => archiveFile' = archiveFile]_vars

\* C19 witness: a pass over a store with a done and a pending record has
\* appended the line of the done record, and the store is as it was
C19_Witness ==
    /\ arPc = "loop"
    /\ ticks = 1
    /\ ~archErr
    /\ archiveFile = << "2|t2|true|2006-01-02 15:04:01|medium" >>
    /\ Len(tasks) = 2
    /\ tasks[1].ID = 2
    /\ tasks[1].Done
    /\ ~tasks[2].Done

\* C20: while the archiver appends to the archive file it does not hold the
\* store lock.
C20_NoLockDuringAppend ==
    arPc = "append" => taskMutex # "archiver"

\* C20 witness: main holds the store lock in a handler while the archiver is
\* at its append
C20_Witness ==
    /\ arPc = "append"
    /\ taskMutex = "main"
    /\ mPc \in {"add_append", "done_body", "delete_body"}

\* C21: an append that fails during an archive pass is not fatal. The step
\* that leaves some line of the snapshot out of the archive file sets the
\* error Run prints, changes neither the store nor the state of the process,
\* and takes the archiver back to its select; there the next tick is taken
\* as before, and the pass it starts snapshots the done tasks the store
\* holds at that moment and clears the error.
C21_FailedAppendNonFatal ==
    /\ [][(arPc = "append" /\ arPc' # "append"
            /\ archiveFile' # archiveFile \o TaskLines(tasksToArchive))
           => (/\ archErr'
               /\ tasks' = tasks
               /\ proc' = proc
               /\ wg' = wg
               /\ arPc' = "loop")]_vars
    /\ []((archErr /\ arPc = "loop" /\ Running /\ ticks < MaxArchTicks)
           => ENABLED ArchTickWithin(MaxArchTicks))
    /\ [][(archErr /\ arPc = "scan" /\ arPc' # "scan")
           => (tasksToArchive' = DoneTasks(tasks) /\ ~archErr')]_vars

\* the first pass failed, a task was marked done since, and the pass of the
\* second tick is about to snapshot both done tasks
C21_Witness ==
    /\ ticks = 2
    /\ arPc = "scan"
    /\ archErr
    /\ mCmd[1] = "done"
    /\ mCmd[3] = "marked"
    /\ Len(DoneTasks(tasks)) = 2

\* C22 (as claimed): no archive pass starts once the cancellation has been
\* signalled, the ticker is not served any more.
C22_Original == [][ctxDone => ticks' = ticks]_vars

\* C22 (amended): the archiver leaves its loop only from the select and only
\* when the context is cancelled; the exit performs no archive pass, and once
\* the worker has exited no pass starts and the archive file does not change.
\* Between the signal and the exit the select may still serve a tick.
C22_NoPassOnceCancellationObserved ==
    /\ [][(arPc # "done" /\ arPc' = "done")
           => (/\ arPc = "loop"
               /\ ctxDone
               /\ ticks' = ticks
               /\ archiveFile' = archiveFile
               /\ tasksToArchive' = tasksToArchive)]_vars
    /\ [][arPc = "done"
           => (/\ arPc' = "done"
               /\ ticks' = ticks
               /\ archiveFile' = archiveFile)]_vars

\* the worker has exited with a done task of the store left out of the
\* archive file
C22_Witness ==
    /\ arPc = "done"
    /\ ctxDone
    /\ DoneTasks(tasks) # <<>>
    /\ archiveFile = <<>>

\* the handler of -done has marked a task and returned
MarkDoneCompleted ==
    IF mCmd[1] = "done" THEN mCmd[3] = "marked" /\ mPc # "done_body" ELSE FALSE

\* the line of the task the handler of -done has marked
MarkedTaskLine == TaskLine(tasks[FirstIndex(tasks, mCmd[2])])

\* the line of the marked task is in the archive file
MarkedTaskArchived ==
    IF MarkDoneCompleted
      THEN \E k \in DOMAIN archiveFile : archiveFile[k] = MarkedTaskLine
      ELSE FALSE

\* the snapshot of a pass that is at its append holds the marked task
MarkedTaskInSnapshot ==
    IF MarkDoneCompleted /\ arPc = "append"
      THEN \E k \in DOMAIN tasksToArchive :
               TaskLine(tasksToArchive[k]) = MarkedTaskLine
      ELSE TRUE

\* C23: a task marked done is archived by the first tick after the handler
\* returned. Safety: from any state in which the handler has returned and
\* the archiver has not yet taken the snapshot of a pass (it is at its
\* select, or at the lock or the scan of a pass), every pass that gets to its
\* append has the task in its snapshot, and an append that returns no error
\* puts the whole snapshot into the archive file. Progress, under fair
\* scheduling: from the return of the handler, the ticker still ticking, the
\* line gets into the archive file unless the run is cancelled or an append
\* fails.
C23_MarkedDoneEventuallyArchived ==
    /\ []((MarkDoneCompleted /\ arPc \in {"loop", "lock", "scan"})
           => [](MarkedTaskInSnapshot))
    /\ [][(arPc = "append" /\ arPc' = "loop" /\ ~archErr')
           => archiveFile' = archiveFile \o TaskLines(tasksToArchive)]_vars
    /\ ((MarkDoneCompleted /\ ticks < MaxArchTicks)
          ~> (MarkedTaskArchived \/ ctxDone \/ archErr))

\* the first pass ran before the task was marked and archived one line; the
\* pass of the second tick has added the lines of both done tasks
C23_Witness ==
    /\ MarkDoneCompleted
    /\ MarkedTaskArchived
    /\ ticks = 2
    /\ ~ctxDone
    /\ Len(archiveFile) = 3

\* the positions of main between a taskMutex.Lock() and its Unlock()
MainCriticalPcs ==
    {"add_append", "list_copy", "done_body", "delete_body",
     "save_tmp", "save_rename", "save_unlock"}

\* C24: once the logger and the archiver have been started, main is inside
\* a handler body or the shutdown save only while it holds taskMutex, the
\* archiver scans only while it holds it, and the two are never inside at
\* once; every step that writes the slice or copies from it (the snapshot of
\* the archiver, the copy of -list, the lines of the save) is a step of the
\* holder of the lock.
C24_StoreAccessUnderLock ==
    /\ []((Running /\ lgPc # "none" /\ arPc # "none")
           => (/\ mPc \in MainCriticalPcs => taskMutex = "main"
               /\ arPc = "scan" => taskMutex = "archiver"
               /\ ~(mPc \in MainCriticalPcs /\ arPc = "scan")))
    /\ [][(lgPc # "none" /\ arPc # "none" /\ tasks' # tasks)
           => (taskMutex = "main" /\ mPc \in MainCriticalPcs)]_vars
    /\ [][tasksToArchive' # tasksToArchive
           => (taskMutex = "archiver" /\ arPc = "scan")]_vars
    /\ [][(mCmd' # mCmd /\ mCmd'[1] = "list" /\ Len(mCmd') = 2)
           => (taskMutex = "main" /\ mPc = "list_copy")]_vars
    /\ [][(tmpFile' # tmpFile /\ tmpFile' # Absent)
           => (taskMutex = "main" /\ mPc = "save_tmp")]_vars

\* the shutdown save waits for the lock while the archiver scans the store
C24_Witness ==
    /\ Running
    /\ mPc = "save_lock"
    /\ arPc = "scan"
    /\ taskMutex = "archiver"
    /\ tasks # <<>>

\* C25: the first bounded wait of the shutdown cannot block main. While
\* waitChan is not closed, the workers still counted in wg, the timeout case
\* can be taken; whichever case ends the wait, main goes on to the lock of
\* the final save; and that lock is free or held by the archiver inside its
\* scan, which no other goroutine can hold up.
C25_TimeoutProceedsToSave ==
    /\ []((Running /\ mPc = "wait1" /\ waitChan # "closed")
           => ENABLED MainWait1Timeout)
    /\ []((Running /\ mPc = "wait1" /\ waitChan = "closed")
           => ENABLED MainWait1)
    /\ [][(mPc = "wait1" /\ mPc' # "wait1") => mPc' = "save_lock"]_vars
    /\ []((Running /\ mPc = "save_lock")
           => (ENABLED MainSaveLock \/ (taskMutex = "archiver" /\ ENABLED ArchScan)))

\* the wait has timed out and the temporary file of the final save is
\* written while both workers are still counted in wg
C25_Witness ==
    /\ Running
    /\ mPc = "save_rename"
    /\ waitChan = "open"
    /\ wg = 2
    /\ tmpFile # Absent

\* C32 (as claimed): an id that a task has had is never given to another
\* task later, also after a shutdown save and a restart that seeds the
\* generator from the largest id in the primary file: the id handleAddTask
\* takes from the generator is none of the ids that tasks of the runs so far
\* have had
C32_AssignedIdNeverReused ==
    IF mCmd[1] = "add"
      THEN ~BagIn(mCmd[2].ID, returned)
      ELSE TRUE

\* C33: archiving is repeated. Every pass copies out every record that is
\* done in the store at its scan, whatever the archive file holds already,
\* and no record that is not in the store; every pass whose append returns
\* no error adds one more line for each record it copied out, so a record
\* that is done in the store at k such passes has k lines in the archive
\* file; a line is there at most once for each tick. A record is left out of
\* a pass only when the store no longer holds it
C33_ArchivingRepeats ==
    /\ [][(arPc = "scan" /\ arPc' # "scan") =>
            /\ \A i \in DOMAIN tasks :
                  tasks[i].Done => tasks[i] \in Range(tasksToArchive')
            /\ \A k \in DOMAIN tasksToArchive' :
                  tasksToArchive'[k] \in Range(tasks)]_vars
    /\ [][(arPc = "append" /\ arPc' = "loop" /\ ~archErr') =>
            \A k \in DOMAIN tasksToArchive :
               Count(archiveFile', TaskLine(tasksToArchive[k]))
                 = Count(archiveFile, TaskLine(tasksToArchive[k]))
                   + Count(TaskLines(tasksToArchive), TaskLine(tasksToArchive[k]))]_vars
    /\ [](\A j \in DOMAIN archiveFile : Count(archiveFile, archiveFile[j]) <= ticks)

\* two passes have appended: a record that is still done in the store has
\* two lines in the archive file
C33_Witness ==
    /\ arPc = "loop"
    /\ ticks = 2
    /\ ~archErr
    /\ \E i \in DOMAIN tasks :
          /\ tasks[i].Done
          /\ Count(archiveFile, TaskLine(tasks[i])) = 2

\* ================================================ claims: pkg/storage

\* C26: a save never leaves the target half-written. In every state from the
\* entry of SaveTasks on, the target holds its content of before the call or
\* the lines of all the records given; when SaveTasks has returned an error
\* the target holds the content of before and there is no temporary file;
\* when it has returned none the target holds the new lines and there is no
\* temporary file either
C26_SaveNeverHalfWritten ==
    IF mCmd[1] = "save"
      THEN /\ primaryFile \in {mCmd[2], TaskLines(savedTasks)}
           /\ (mPc = "save_unlock" /\ saveErr)
                 => (primaryFile = mCmd[2] /\ tmpFile = Absent)
           /\ (mPc = "save_unlock" /\ ~saveErr)
                 => (primaryFile = TaskLines(savedTasks) /\ tmpFile = Absent)
      ELSE TRUE

\* a save of two records has failed at the rename over a file of ten lines
C26_Witness ==
    /\ mPc = "save_unlock"
    /\ mCmd[1] = "save"
    /\ saveErr
    /\ tmpFile = Absent
    /\ Len(savedTasks) = 2
    /\ primaryFile # Absent
    /\ Len(primaryFile) = 10
    /\ primaryFile # TaskLines(savedTasks)

\* C27: LoadTasks of a file that mixes valid and malformed lines returns, in
\* the order of the file, one record for each line that splits into five
\* fields at its first four separators and has an integer id, a boolean done
\* flag and a timestamp that parses, and no other record: the k-th such line
\* gives the k-th record, with the fields of the line, the priority being
\* medium when the fifth field is none of high, medium, low. Lines before a
\* kept line that are malformed do not keep it from being decoded
C27_DecodeKeepsExactlyValidLines ==
    IF mCmd[1] = "load"
      THEN (~mCmd[4] /\ mCmd[2] # Absent) =>
             LET lines == ScanLines(mCmd[2])
                 Field(i, k) == SplitN(lines[i], "|", 5)[k]
                 good == {i \in DOMAIN lines :
                            /\ Len(SplitN(lines[i], "|", 5)) = 5
                            /\ Atoi(Field(i, 1)).ok
                            /\ ParseBool(Field(i, 3)).ok
                            /\ ParseTime(Field(i, 4)).ok}
                 Rank(i) == Cardinality({j \in good : j <= i})
             IN /\ Len(tasks) = Cardinality(good)
                /\ \A i \in good :
                      /\ tasks[Rank(i)].ID = Atoi(Field(i, 1)).value
                      /\ tasks[Rank(i)].Title = Field(i, 2)
                      /\ tasks[Rank(i)].Done = ParseBool(Field(i, 3)).value
                      /\ tasks[Rank(i)].CreatedAt = ParseTime(Field(i, 4)).value
                      /\ tasks[Rank(i)].Priority =
                           (IF Field(i, 5) \in {"high", "medium", "low"}
                              THEN Field(i, 5) ELSE "medium")
      ELSE TRUE

\* the file of ten lines, five of them malformed, has been decoded: the
\* records of the lines 1, 5, 8, 9 and 10, the second with its unknown
\* priority made medium, the third found after the malformed lines 6 and 7
C27_Witness ==
    /\ mPc = "loaded"
    /\ mCmd[1] = "load"
    /\ mCmd[2] # Absent
    /\ Len(mCmd[2]) = 10
    /\ ~mCmd[4]
    /\ Len(tasks) = 5
    /\ tasks[1].ID = 1
    /\ tasks[2].ID = 5
    /\ tasks[2].Priority = "medium"
    /\ tasks[3].ID = 7
    /\ tasks[4].ID = 8
    /\ tasks[4].Done
    /\ tasks[5].Title = "short"

\* the ids of the records a load has returned
LoadedIds == {tasks[i].ID : i \in DOMAIN tasks}

\* the lines of a file in the opposite order
ReversedFile(file) == [i \in 1..Len(file) |-> file[Len(file) + 1 - i]]

\* C28 (as claimed): LoadTasks returns as maxID the largest id among the
\* records it has parsed, and zero when it has parsed none
C28_Original ==
    IF mCmd[1] = "load"
      THEN ~mCmd[4] =>
             /\ tasks = <<>> => mCmd[3] = 0
             /\ tasks # <<>> =>
                   (mCmd[3] \in LoadedIds /\ \A x \in LoadedIds : x <= mCmd[3])
      ELSE TRUE

\* C28: LoadTasks returns as maxID the largest of zero and the ids of the
\* records it has parsed: their largest id when that is above zero, zero
\* when no record was parsed or none has an id above zero. The lines of the
\* file in the opposite order give the same maxID. A missing file and an
\* empty one decode to the empty sequence with maxID 0 and no error
C28_MaxIdIsLargestPositiveId ==
    IF mCmd[1] = "load"
      THEN /\ ~mCmd[4] =>
                /\ mCmd[3] \in LoadedIds \cup {0}
                /\ \A x \in LoadedIds \cup {0} : x <= mCmd[3]
           /\ (~mCmd[4] /\ mCmd[2] # Absent) =>
                LoadTasks(ReversedFile(mCmd[2]), FALSE).maxID = mCmd[3]
           /\ (~mCmd[4] /\ mCmd[2] \in {Absent, <<>>}) =>
                (tasks = <<>> /\ mCmd[3] = 0)
      ELSE TRUE

\* the file with the ids 10, 5, 15 has been decoded: maxID is 15, the id of
\* neither the first nor the second record
C28_Witness ==
    /\ mPc = "loaded"
    /\ mCmd[1] = "load"
    /\ ~mCmd[4]
    /\ Len(tasks) = 3
    /\ tasks[1].ID = 10
    /\ tasks[2].ID = 5
    /\ tasks[3].ID = 15
    /\ mCmd[3] = 15

\* a load has followed a SaveTasks that returned no error, and has returned
\* none itself
SavedThenLoaded ==
    IF mCmd[1] = "load"
      THEN mPc = "loaded" /\ mCmd[5] = "save" /\ ~saveErr /\ ~mCmd[4]
      ELSE FALSE

\* the largest id of a sequence of records, 0 for the empty one
LargestId(ts) ==
    IF ts = <<>> THEN 0
    ELSE CHOOSE m \in {ts[i].ID : i \in DOMAIN ts} :
           \A i \in DOMAIN ts : ts[i].ID <= m

\* no title of the sequence holds the separator or a newline
PlainTitles(ts) ==
    \A i \in DOMAIN ts : Index(ts[i].Title, "|") = 0 /\ Index(ts[i].Title, "\n") = 0

\* C29 (as claimed): SaveTasks of any sequence of valid records followed by
\* LoadTasks of the same path gives the same sequence in the same order, the
\* fields equal, the timestamps being the same second, and maxID the
\* largest id saved
C29_Original ==
    SavedThenLoaded =>
      /\ Len(tasks) = Len(savedTasks)
      /\ \A i \in DOMAIN savedTasks :
            i \in DOMAIN tasks =>
              /\ tasks[i].ID = savedTasks[i].ID
              /\ tasks[i].Title = savedTasks[i].Title
              /\ tasks[i].Done = savedTasks[i].Done
              /\ tasks[i].Priority = savedTasks[i].Priority
              /\ tasks[i].CreatedAt[1] - tasks[i].CreatedAt[3]
                   = savedTasks[i].CreatedAt[1] - savedTasks[i].CreatedAt[3]
      /\ mCmd[3] = LargestId(savedTasks)

\* C29: for a sequence of valid records whose titles hold neither the
\* separator nor a newline, SaveTasks followed by LoadTasks of the same path
\* gives a sequence of the same length and order with id, title, done flag
\* and priority equal; each loaded timestamp is the reading of the clock of
\* the saved one to the second, without the fraction and in UTC whatever the
\* location of the saved one was; maxID is the largest id saved, 0 for the
\* empty sequence
C29_RoundTripOfPlainTitles ==
    (SavedThenLoaded /\ PlainTitles(savedTasks)) =>
      /\ Len(tasks) = Len(savedTasks)
      /\ \A i \in DOMAIN savedTasks :
            /\ tasks[i].ID = savedTasks[i].ID
            /\ tasks[i].Title = savedTasks[i].Title
            /\ tasks[i].Done = savedTasks[i].Done
            /\ tasks[i].Priority = savedTasks[i].Priority
            /\ tasks[i].CreatedAt = <<savedTasks[i].CreatedAt[1], 0, 0>>
      /\ mCmd[3] = LargestId(savedTasks)

\* the records 12 and 1 have been saved and loaded: the first, saved with a
\* fraction of a second in a location east of UTC, comes back with the same
\* reading of the clock in UTC
C29_Witness ==
    /\ SavedThenLoaded
    /\ Len(savedTasks) = 2
    /\ savedTasks[1].ID = 12
    /\ savedTasks[1].CreatedAt = <<2, 7, 1>>
    /\ savedTasks[2].ID = 1
    /\ Len(tasks) = 2
    /\ tasks[1].CreatedAt = <<2, 0, 0>>
    /\ tasks[2].ID = 1
    /\ mCmd[3] = 12

\* an AppendTask call has returned: the file it found, as a sequence of
\* lines, the records it was given, and the way it went
Appended == IF mCmd[1] = "append" THEN mPc = "appended" ELSE FALSE

FoundLines == IF mCmd[2] = Absent THEN <<>> ELSE mCmd[2]

\* C30 (as claimed): AppendTask leaves the content of the file unchanged and
\* adds the lines of the records after it in the order given, making the
\* file when there is none; when the write of one record fails the records
\* after it are still written; a flush failure is returned as an error
C30_Original ==
    (Appended /\ mCmd[4][1]) =>
      /\ primaryFile # Absent
      /\ Len(primaryFile) >= Len(FoundLines)
      /\ SubSeq(primaryFile, 1, Len(FoundLines)) = FoundLines
      /\ \A k \in DOMAIN mCmd[3] :
            k > mCmd[4][3] =>
              \E j \in (Len(FoundLines) + 1)..Len(primaryFile) :
                 primaryFile[j] = TaskLine(mCmd[3][k])
      /\ mCmd[4][2] < Len(mCmd[3]) => mCmd[5]

\* C30: AppendTask leaves the content of the file unchanged and adds lines of
\* the records after it in the order given, making the file when there is
\* none: all the lines when it returns no error, only the first of them,
\* possibly none, when it returns an error. When the write of one record
\* fails the loop goes on, the write of every later record fails too and is
\* printed like the first, no line of the failed record or of a later one
\* reaches the file, and the error is returned. When the open fails the
\* file is as it was found and an error is returned
C30_AppendKeepsContentAddsPrefix ==
    Appended =>
      LET ts == mCmd[3]
          opened == mCmd[4][1]
          failed == mCmd[4][3]
          added == Len(primaryFile) - Len(FoundLines)
      IN /\ ~opened => (primaryFile = mCmd[2] /\ mCmd[5])
         /\ opened =>
               /\ primaryFile # Absent
               /\ added \in 0..Len(ts)
               /\ SubSeq(primaryFile, 1, Len(FoundLines)) = FoundLines
               /\ \A k \in 1..added :
                     primaryFile[Len(FoundLines) + k] = TaskLine(ts[k])
               /\ mCmd[5] <=> added < Len(ts)
               /\ failed <= Len(ts) =>
                     /\ added < failed
                     /\ mCmd[5]
                     /\ mCmd[6] = [k \in 1..(Len(ts) + 1 - failed) |->
                                     ts[failed + k - 1].ID]
               /\ failed > Len(ts) => mCmd[6] = <<>>

\* two records were to be appended to the file of three lines; the write of
\* the first failed, both failures were printed, the file is as it was and
\* the error was returned
C30_Witness ==
    /\ Appended
    /\ mCmd[4] = <<TRUE, 0, 1>>
    /\ Len(mCmd[3]) = 2
    /\ Len(mCmd[2]) = 3
    /\ primaryFile = mCmd[2]
    /\ mCmd[5]
    /\ mCmd[6] = <<mCmd[3][1].ID, mCmd[3][2].ID>>

\* ==================================================== claims: the program

\* C34: a load that fails with an I/O error does not end the startup. The
\* failed LoadTasks gives no records and maxID 0; the step of main that
\* loads, whether the load failed or not, goes on to the start of the
\* archiver with the process running and the logger worker started, and
\* leaves either the store empty and the generator at 1 or the records of
\* the file and the generator above their largest id; the archiver is then
\* started as in any run; while the store is empty as the load left it the
\* generator is at 1, and the id an add is given is the generator's value
C34_LoadFailureStartsEmpty ==
    /\ [](mPc = "load" =>
            /\ LoadTasks(primaryFile, TRUE).tasks = <<>>
            /\ LoadTasks(primaryFile, TRUE).err
            /\ NewIDGenerator(LoadTasks(primaryFile, TRUE).maxID) = 1)
    /\ [][(mPc = "load" /\ mPc' # "load") =>
            /\ mPc' = "run_archiver"
            /\ proc' = "running"
            /\ lgPc' # "none"
            /\ \/ tasks' = <<>> /\ nextID' = 1
               \/ /\ tasks' = LoadTasks(primaryFile, FALSE).tasks
                  /\ nextID' = LoadTasks(primaryFile, FALSE).maxID + 1]_vars
    /\ [][(mPc = "run_archiver" /\ mPc' # "run_archiver") =>
            /\ mPc' = "flags"
            /\ proc' = "running"
            /\ arPc' = "loop"
            /\ wg' = wg + 1]_vars
    /\ []((mPc \in {"run_archiver", "flags"} /\ tasks = <<>>) => nextID = 1)
    /\ [][(mPc = "flags" /\ mPc' = "add_lock") =>
            (IF mCmd'[1] = "add" THEN mCmd'[2].ID = nextID ELSE FALSE)]_vars

\* the load of a file of three lines has failed: the store is empty, both
\* workers run, and the task being added has been given the id 1
C34_Witness ==
    /\ Running
    /\ mPc = "add_lock"
    /\ mCmd[1] = "add"
    /\ mCmd[2].ID = 1
    /\ tasks = <<>>
    /\ Len(primaryFile) = 3
    /\ lgPc = "loop"
    /\ arPc = "loop"
    /\ wg = 2

\* the step of main at a position where it holds the store lock
MainHolderStep ==
    \/ MainAddAppend
    \/ MainListCopy
    \/ MainDoneBody
    \/ MainDeleteBody
    \/ \E outcome \in {"ok", "create", "write"} : SaveTemp(outcome)
    \/ \E ok \in BOOLEAN : SaveRename(ok)
    \/ MainSaveUnlock

\* C35: no deadlock among main, the archiver and the logger worker. A
\* running process always has a step to take: until the context is
\* cancelled the signal can come, and from then on a goroutine of the
\* program can step. The holder of the store lock
\* can always take its next step, with the queue full as well (the send of
\* Log does not wait): it waits for no goroutine, for no room in the queue
\* and not for the archive file, which the archiver writes after it has
\* given the lock back. A step that calls Log or Close never takes the store
\* lock: l.mu is taken with the store lock held or with no lock held, and
\* the store lock is never taken inside it
C35_NoDeadlock ==
    /\ []((Running /\ ~ctxDone) => ENABLED Signal)
    /\ []((Running /\ ctxDone) =>
            IF mPc = "load" THEN ENABLED MainLoad(TRUE) ELSE ENABLED Next)
    /\ []((Running /\ taskMutex = "main") => ENABLED MainHolderStep)
    /\ []((Running /\ taskMutex = "archiver") => (arPc = "scan" /\ ENABLED ArchScan))
    /\ [](arPc = "append" => taskMutex # "archiver")
    /\ [][nLog' # nLog =>
            (taskMutex' = taskMutex \/ (taskMutex = "main" /\ taskMutex' = "none"))]_vars
    /\ [][closeCalls' # closeCalls => taskMutex' = taskMutex]_vars

\* main holds the store lock in handleDoneTask and is about to call Log on
\* a full queue, while the archiver waits for the lock
C35_Witness ==
    /\ Running
    /\ mPc = "done_body"
    /\ taskMutex = "main"
    /\ Len(logChan) = bufferSize
    /\ arPc = "lock"

\* positions of main in the shutdown sequence, and the steps between them
ShutdownSteps ==
    { <<"wait_ctx", "wait1">>, <<"wait1", "save_lock">>,
      <<"save_lock", "save_tmp">>, <<"save_tmp", "save_rename">>,
      <<"save_tmp", "save_unlock">>, <<"save_rename", "save_unlock">>,
      <<"save_unlock", "save_log">>, <<"save_log", "close1">>,
      <<"close1", "wait2">>, <<"wait2", "close2">>, <<"close2", "exit">>,
      <<"exit", "returned">> }

ShutdownPcs == {st[1] : st \in ShutdownSteps}

\* C2 (as claimed): main goes through the shutdown steps in the order cancel,
\* bounded wait, save under the store lock, Close(), second bounded wait,
\* exit, and every run in which the context is cancelled reaches the exit:
\* main, in any of these steps, never stops before it has returned.
C2_ShutdownOrderAndExit ==
    /\ [][(mPc' # mPc /\ mPc \in ShutdownPcs) => <<mPc, mPc'>> \in ShutdownSteps]_vars
    /\ []((mPc \in ShutdownPcs \ {"wait_ctx"}) => ctxDone)
    /\ [](mPc \in {"save_tmp", "save_rename", "save_unlock"} => taskMutex = "main")
    /\ [](mPc \in {"wait2", "close2", "exit", "returned"} => closed)
    /\ []((ctxDone /\ mPc \in ShutdownPcs) => (proc = "exited" \/ ENABLED Next))

BothWorkersActive ==
    /\ lgPc \in {"loop", "drain", "exiting", "fileclosed"}
    /\ arPc \in {"loop", "lock", "scan", "append"}

\* C3 (as claimed): wg.Wait returns only when both workers have signalled
\* completion, and once the context is cancelled with both workers active
\* both get to signal completion: the run never stops with a worker still
\* active (a run in which main returns after its bounded waits is not held
\* against the claim).
C3_WorkersTerminateAfterCancel ==
    /\ waitChan = "closed" => (lgPc = "done" /\ arPc = "done")
    /\ (ctxDone /\ BothWorkersActive) => (proc = "exited" \/ ENABLED Next)

\* C4: while SaveTasks runs main holds the store lock, the store is the one
\* the save started from and the archiver is not scanning it; after a save
\* that succeeded the primary file holds one line for every record of the
\* store as it was at the save, in store order, with that record's fields
\* (the creation time to the second).
C4_ShutdownSaveWritesStore ==
    /\ mPc \in {"save_tmp", "save_rename", "save_unlock"} =>
         /\ taskMutex = "main"
         /\ tasks = savedTasks
         /\ arPc # "scan"
    /\ (mPc \in {"save_unlock", "save_log", "close1", "wait2", "close2", "exit",
                 "returned"} /\ ~saveErr) =>
         /\ tasks = savedTasks
         /\ Len(primaryFile) = Len(savedTasks)
         /\ \A i \in DOMAIN savedTasks :
              primaryFile[i] =
                  Itoa(savedTasks[i].ID) \o "|" \o savedTasks[i].Title \o "|"
                    \o FormatBool(savedTasks[i].Done) \o "|"
                    \o FormatTime(savedTasks[i].CreatedAt) \o "|"
                    \o savedTasks[i].Priority

\* C4 witness: the save of a store of three records, the last one added in
\* this run, has succeeded while the archiver waits for the store lock
C4_Witness ==
    /\ mPc = "save_unlock"
    /\ ~saveErr
    /\ Len(tasks) = 3
    /\ tasks[3].CreatedAt = <<3, 1, 1>>
    /\ arPc = "lock"
    /\ primaryFile # Absent

=============================================================================
